---- MODULE Spec2Model ----
(***************************************************************************)
(* Avatar profile persistence (backend-copy/avatar/repository.py) over a   *)
(* PostgreSQL store, and the operations the routes invoke on it.           *)
(*                                                                         *)
(* The committed database is the variable db, a record of tables, each a   *)
(* set of rows.  A transaction works on an overlay w = [ins, del] over the *)
(* committed tables: what it sees is View(d, w), COMMIT installs the view  *)
(* and ROLLBACK drops the overlay.  Every SQL statement of the repository  *)
(* is an operator from (d, w) to the next overlay; a handler is the        *)
(* composition of its statements in source order, cut short where one of   *)
(* them raises.                                                            *)
(***************************************************************************)
EXTENDS Integers, Sequences, FiniteSets, TLC

VARIABLES db, clock, next_uuid, resp, fresh, pool, req

vars == <<db, clock, next_uuid, resp, fresh, pool, req>>

----------------------------------------------------------------------------
(* Python values.  A value carries its type, so that isinstance, truth     *)
(* tests and float() are computed and not assumed.  A str is a sequence of *)
(* one-character strings; a dict is a function from its keys.              *)

None == [t |-> "None"]
Str(s) == [t |-> "str", v |-> s]
Float(n) == [t |-> "float", v |-> n]
Datetime(n) == [t |-> "datetime", v |-> n]

IsNone(x) == x.t = "None"
IsStr(x) == x.t = "str"
\* isinstance(x, (int, float)): bool is a subclass of int
IsNumber(x) == x.t \in {"int", "float", "bool"}
IsDatetime(x) == x.t = "datetime"
ToFloat(x) == Float(x.v)

\* dict.get(key), None when the key is absent
Get(d, k) == IF k \in DOMAIN d THEN d[k] ELSE None

EmptyDict == <<>>

\* truth value of a scalar
Truthy(x) ==
    CASE x.t = "None" -> FALSE
      [] x.t = "str" -> x.v # <<>>
      [] x.t = "bool" -> x.v # 0
      [] x.t \in {"int", "float"} -> x.v # 0
      [] OTHER -> TRUE

\* x or y
Or(x, y) == IF Truthy(x) THEN x ELSE y

\* the whitespace str.strip() removes
IsSpace(ch) == ch \in {" ", "\t"}

RECURSIVE LStrip(_)
LStrip(s) == IF s # <<>> /\ IsSpace(Head(s)) THEN LStrip(Tail(s)) ELSE s

RECURSIVE RStrip(_)
RStrip(s) ==
    IF s # <<>> /\ IsSpace(s[Len(s)]) THEN RStrip(SubSeq(s, 1, Len(s) - 1)) ELSE s

\* str.strip()
Strip(s) == RStrip(LStrip(s))

\* code points of the characters the model's strings are made of
Ord(ch) ==
    CASE ch = " " -> 32
      [] ch = "\t" -> 9
      [] ch = "-" -> 45
      [] ch = "0" -> 48
      [] ch = "1" -> 49
      [] ch = "2" -> 50
      [] ch = "3" -> 51
      [] ch = "4" -> 52
      [] ch = "5" -> 53
      [] ch = "6" -> 54
      [] ch = "7" -> 55
      [] ch = "8" -> 56
      [] ch = "9" -> 57
      [] ch = "A" -> 65
      [] ch = "B" -> 66
      [] ch = "C" -> 67
      [] ch = "D" -> 68
      [] ch = "E" -> 69
      [] ch = "F" -> 70
      [] ch = "G" -> 71
      [] ch = "H" -> 72
      [] ch = "I" -> 73
      [] ch = "J" -> 74
      [] ch = "K" -> 75
      [] ch = "L" -> 76
      [] ch = "M" -> 77
      [] ch = "N" -> 78
      [] ch = "O" -> 79
      [] ch = "P" -> 80
      [] ch = "Q" -> 81
      [] ch = "R" -> 82
      [] ch = "S" -> 83
      [] ch = "T" -> 84
      [] ch = "U" -> 85
      [] ch = "V" -> 86
      [] ch = "W" -> 87
      [] ch = "X" -> 88
      [] ch = "Y" -> 89
      [] ch = "Z" -> 90
      [] ch = "_" -> 95
      [] ch = "a" -> 97
      [] ch = "b" -> 98
      [] ch = "c" -> 99
      [] ch = "d" -> 100
      [] ch = "e" -> 101
      [] ch = "f" -> 102
      [] ch = "g" -> 103
      [] ch = "h" -> 104
      [] ch = "i" -> 105
      [] ch = "j" -> 106
      [] ch = "k" -> 107
      [] ch = "l" -> 108
      [] ch = "m" -> 109
      [] ch = "n" -> 110
      [] ch = "o" -> 111
      [] ch = "p" -> 112
      [] ch = "q" -> 113
      [] ch = "r" -> 114
      [] ch = "s" -> 115
      [] ch = "t" -> 116
      [] ch = "u" -> 117
      [] ch = "v" -> 118
      [] ch = "w" -> 119
      [] ch = "x" -> 120
      [] ch = "y" -> 121
      [] ch = "z" -> 122
      [] ch = "{" -> 123
      [] ch = "}" -> 125
      [] ch = ":" -> 58
      [] ch = "." -> 46
      [] ch = "'" -> 39
      [] ch = "[" -> 91
      [] ch = "]" -> 93
      [] ch = "," -> 44
      [] OTHER -> 126

\* s < t for str (by code point, a proper prefix first)
RECURSIVE StrLess(_, _)
StrLess(s, t) ==
    IF t = <<>> THEN FALSE
    ELSE IF s = <<>> THEN TRUE
    ELSE IF Ord(Head(s)) # Ord(Head(t)) THEN Ord(Head(s)) < Ord(Head(t))
    ELSE StrLess(Tail(s), Tail(t))

----------------------------------------------------------------------------
(* Tables and transactions                                                 *)

TableNames == {"users", "avatars", "basic", "body", "morphs", "quick", "defs"}

EmptyTables == [t \in TableNames |-> {}]

\* the overlay of a transaction that has executed no statement
NoWrites == [ins |-> EmptyTables, del |-> EmptyTables]

\* what a transaction with overlay w sees of the committed tables d
View(d, w) == [t \in TableNames |-> (d[t] \ w.del[t]) \cup w.ins[t]]

\* INSERT of the rows R into table t
InsertRows(w, t, R) == [w EXCEPT !.ins[t] = @ \cup R]

\* DELETE of the rows R (rows of the view) from table t
DeleteRows(d, w, t, R) ==
    [ins |-> [w.ins EXCEPT ![t] = @ \ R],
     del |-> [w.del EXCEPT ![t] = @ \cup (R \cap d[t])]]

----------------------------------------------------------------------------
(* Statements of the repository                                            *)

\* range(1, 6) in _find_available_slot: the slots are 1..MaxAvatars
MaxAvatars == 5

\* the value a column takes when an INSERT does not name it and the code
\* never reads it back
ColumnDefault == [t |-> "default"]

\* a dict is a function of its keys; a scalar is a record with the field t
IsDict(x) == "t" \notin DOMAIN x

\* truth value of a scalar or a dict
IsTrue(x) == IF IsDict(x) THEN DOMAIN x # {} ELSE Truthy(x)

_MEASUREMENT_STATUS_KEYS == {"creationMode"}

UntitledAvatar ==
    <<"U", "n", "t", "i", "t", "l", "e", "d", " ", "A", "v", "a", "t", "a", "r">>

\* datetime -> ISO-8601 UTC text with a literal Z: a str, no longer a datetime
_isoformat(dt) == [t |-> "str", v |-> <<"Z">>, iso |-> dt.v]

\* text of a timestamp -> the instant, None when it does not parse
ParseIso(x) == IF "iso" \in DOMAIN x THEN Datetime(x.iso) ELSE None

_coerce_datetime(value) ==
    CASE IsNone(value) -> None
      [] IsDatetime(value) -> value
      [] IsNumber(value) -> Datetime(value.v)
      [] IsStr(value) -> IF Strip(value.v) = <<>> THEN None ELSE ParseIso(value)
      [] OTHER -> None

UserRows(v, user_id) == {r \in v.users : r.id = user_id}

\* an upsert that keeps the stored value of a field the context does not
\* give: SET email = COALESCE(EXCLUDED.email, users.email), ...
EnsureUserKeepingFields(d, w, user_id, user_context, now) ==
    LET existing == UserRows(View(d, w), user_id)
        Kept(value, field) ==
            IF IsNone(value) /\ existing # {}
            THEN (CHOOSE r \in existing : TRUE)[field] ELSE value
    IN  IF user_context = None \/ DOMAIN user_context = {}
        THEN IF existing # {} THEN w
             ELSE InsertRows(w, "users",
                    {[id |-> user_id, email |-> None, session_id |-> None,
                      issued_at |-> None, expires_at |-> None,
                      access_token |-> None, refresh_token |-> None,
                      updated_at |-> ColumnDefault]})
        ELSE InsertRows(DeleteRows(d, w, "users", existing), "users",
                {[id |-> user_id,
                  email |-> Kept(Get(user_context, "email"), "email"),
                  session_id |-> Kept(Get(user_context, "session_id"), "session_id"),
                  issued_at |-> Kept(_coerce_datetime(Get(user_context, "issued_at")),
                                     "issued_at"),
                  expires_at |-> Kept(_coerce_datetime(Get(user_context, "expires_at")),
                                      "expires_at"),
                  access_token |-> Kept(Get(user_context, "access_token"),
                                        "access_token"),
                  refresh_token |-> Kept(Get(user_context, "refresh_token"),
                                         "refresh_token"),
                  updated_at |-> IF existing = {} THEN ColumnDefault
                                 ELSE Datetime(now)]})

\* _ensure_user: INSERT ... ON CONFLICT DO NOTHING without a context,
\* INSERT ... ON CONFLICT (id) DO UPDATE with one
_ensure_user(d, w, user_id, user_context, now) ==
    LET existing == UserRows(View(d, w), user_id)
    IN  IF user_context = None \/ DOMAIN user_context = {}
        THEN IF existing # {} THEN w
             ELSE InsertRows(w, "users",
                    {[id |-> user_id, email |-> None, session_id |-> None,
                      issued_at |-> None, expires_at |-> None,
                      access_token |-> None, refresh_token |-> None,
                      updated_at |-> ColumnDefault]})
        ELSE LET row == [id |-> user_id,
                         email |-> Get(user_context, "email"),
                         session_id |-> Get(user_context, "session_id"),
                         issued_at |-> _coerce_datetime(Get(user_context, "issued_at")),
                         expires_at |-> _coerce_datetime(Get(user_context, "expires_at")),
                         access_token |-> Get(user_context, "access_token"),
                         refresh_token |-> Get(user_context, "refresh_token"),
                         updated_at |-> ColumnDefault]
             IN  IF existing = {}
                 THEN InsertRows(w, "users", {row})
                 ELSE InsertRows(DeleteRows(d, w, "users", existing), "users",
                        {[row EXCEPT !.updated_at = Datetime(now)]})

UsedSlots(v, user_id) == {r.slot : r \in {a \in v.avatars : a.user_id = user_id}}

\* the slot after as many as are in use
FindSlotByCount(v, user_id) ==
    IF Cardinality(UsedSlots(v, user_id)) >= MaxAvatars THEN 0
    ELSE Cardinality(UsedSlots(v, user_id)) + 1

\* the first slot of 1..6 not in use
FindSlotOfSix(v, user_id) ==
    LET free == {s \in 1..(MaxAvatars + 1) : s \notin UsedSlots(v, user_id)}
    IN  IF free = {} THEN 0 ELSE CHOOSE s \in free : \A o \in free : s <= o

\* the last slot of 1..5 not in use
FindLastFreeSlot(v, user_id) ==
    LET free == {s \in 1..MaxAvatars : s \notin UsedSlots(v, user_id)}
    IN  IF free = {} THEN 0 ELSE CHOOSE s \in free : \A o \in free : s >= o

\* _find_available_slot: the first slot of 1..5 not in use, 0 standing for
\* the AvatarQuotaExceededError it raises when there is none
_find_available_slot(v, user_id) ==
    LET free == {s \in 1..MaxAvatars : s \notin UsedSlots(v, user_id)}
    IN  IF free = {} THEN 0 ELSE CHOOSE s \in free : \A o \in free : s <= o

\* the name as received unless it is empty
AvatarNameAsReceived(name) == IF name # <<>> THEN name ELSE UntitledAvatar

\* name.strip() if name.strip() else "Untitled Avatar"
AvatarName(name) == IF Strip(name) # <<>> THEN Strip(name) ELSE UntitledAvatar

\* a key on the name alone
NameKeyOfAnyUser(v, id, user_id, name) ==
    \E r \in v.avatars : r.id # id /\ r.name = name

\* a key that the default name is exempt from
NameKeyOfGivenNames(v, id, user_id, name) ==
    /\ name # UntitledAvatar
    /\ \E r \in v.avatars : r.id # id /\ r.user_id = user_id /\ r.name = name

\* the constraint avatars_user_id_name_key: another row of the view has this
\* user_id and name
UniqueViolation(v, id, user_id, name) ==
    \E r \in v.avatars : r.id # id /\ r.user_id = user_id /\ r.name = name

\* the lookup without the owner in its predicate
SelectAvatarAnyOwner(v, avatar_id, user_id) ==
    {r \in v.avatars : r.id = avatar_id}

\* SELECT ... FROM avatars WHERE id = %s AND user_id = %s
SelectAvatar(v, avatar_id, user_id) ==
    {r \in v.avatars : r.id = avatar_id /\ r.user_id = user_id}

\* the header row written with the name as received
NewAvatarRowUntrimmed(avatar_uuid, user_id, slot, m, now) ==
    [id |-> avatar_uuid, user_id |-> user_id, name |-> m.name,
     slot |-> slot, gender |-> m.gender, age_range |-> m.age_range,
     creation_mode |-> m.creation_mode, source |-> m.source,
     quick_mode |-> m.quick_mode, created_by_session |-> m.created_by_session,
     created_at |-> Datetime(now), updated_at |-> Datetime(now)]

\* the row INSERT INTO avatars writes
NewAvatarRow(avatar_uuid, user_id, slot, m, now) ==
    [id |-> avatar_uuid, user_id |-> user_id, name |-> AvatarName(m.name),
     slot |-> slot, gender |-> m.gender, age_range |-> m.age_range,
     creation_mode |-> m.creation_mode, source |-> m.source,
     quick_mode |-> m.quick_mode, created_by_session |-> m.created_by_session,
     created_at |-> Datetime(now), updated_at |-> Datetime(now)]

\* an UPDATE that also sets created_at
UpdatedAvatarRowCreatedNow(r, m, now) ==
    [r EXCEPT !.name = AvatarName(m.name), !.gender = m.gender,
              !.age_range = m.age_range, !.creation_mode = m.creation_mode,
              !.source = m.source, !.quick_mode = m.quick_mode,
              !.created_by_session = m.created_by_session,
              !.created_at = Datetime(now), !.updated_at = Datetime(now)]

\* what UPDATE avatars SET ... WHERE id = %s makes of a row
UpdatedAvatarRow(r, m, now) ==
    [r EXCEPT !.name = AvatarName(m.name), !.gender = m.gender,
              !.age_range = m.age_range, !.creation_mode = m.creation_mode,
              !.source = m.source, !.quick_mode = m.quick_mode,
              !.created_by_session = m.created_by_session,
              !.updated_at = Datetime(now)]

\* {k: v for k, v in section.items() if k not in _MEASUREMENT_STATUS_KEYS}
StoredMeasurements(section) ==
    [k \in DOMAIN section \ _MEASUREMENT_STATUS_KEYS |-> section[k]]

MeasurementRows(avatar_id, section) ==
    {[avatar_id |-> avatar_id, measurement_key |-> k, value |-> section[k]] :
        k \in DOMAIN section}

\* the entry _persist_measurements keeps of one morph target
MorphData(item) ==
    LET backend_key == Get(item, "backendKey")
        slider0 == Get(item, "sliderValue")
        slider_value == IF IsNone(slider0) /\ "value" \in DOMAIN item
                        THEN Get(item, "value") ELSE slider0
        unreal_value == Get(item, "unrealValue")
    IN  [backend_key |-> IF IsStr(backend_key)
                         THEN (IF Strip(backend_key.v) = <<>> THEN None
                               ELSE Str(Strip(backend_key.v)))
                         ELSE backend_key,
         slider_value |-> IF IsNumber(slider_value) THEN ToFloat(slider_value) ELSE None,
         unreal_value |-> IF IsNumber(unreal_value) THEN ToFloat(unreal_value) ELSE None]

\* str(item.get("id")).strip(), "" when the id is None
MorphId(item) ==
    LET id == Get(item, "id")
    IN  IF IsNone(id) THEN <<>> ELSE Strip(id.v)

\* morph_map: morph id -> data, a later entry replacing an earlier one and
\* an entry with a blank id skipped
RECURSIVE MorphMap(_)
MorphMap(morph_targets) ==
    IF morph_targets = <<>> THEN EmptyDict
    ELSE LET n == Len(morph_targets)
             item == morph_targets[n]
             rest == MorphMap(SubSeq(morph_targets, 1, n - 1))
         IN  IF MorphId(item) = <<>> THEN rest
             ELSE [k \in DOMAIN rest \cup {MorphId(item)} |->
                     IF k = MorphId(item) THEN MorphData(item) ELSE rest[k]]

\* an upsert that sets backend_key = EXCLUDED.backend_key
UpsertDefinitionsOverwriting(d, w, morph_map, now) ==
    LET old == {r \in View(d, w).defs : r.id \in DOMAIN morph_map}
        new == {[id |-> k, backend_key |-> morph_map[k].backend_key,
                 updated_at |-> IF \E r \in old : r.id = k THEN Datetime(now)
                                ELSE ColumnDefault]
                : k \in DOMAIN morph_map}
    IN  InsertRows(DeleteRows(d, w, "defs", old), "defs", new)

\* INSERT INTO morph_definitions ... ON CONFLICT (id) DO UPDATE SET
\* backend_key = COALESCE(EXCLUDED.backend_key, morph_definitions.backend_key)
UpsertDefinitions(d, w, morph_map, now) ==
    LET old == {r \in View(d, w).defs : r.id \in DOMAIN morph_map}
        new == {IF \E r \in old : r.id = k
                THEN LET r == CHOOSE r \in old : r.id = k
                     IN  [id |-> k,
                          backend_key |-> IF IsNone(morph_map[k].backend_key)
                                          THEN r.backend_key
                                          ELSE morph_map[k].backend_key,
                          updated_at |-> Datetime(now)]
                ELSE [id |-> k, backend_key |-> morph_map[k].backend_key,
                      updated_at |-> ColumnDefault]
                : k \in DOMAIN morph_map}
    IN  InsertRows(DeleteRows(d, w, "defs", old), "defs", new)

MorphRows(avatar_id, morph_map, now) ==
    {[avatar_id |-> avatar_id, morph_id |-> k,
      backend_key |-> morph_map[k].backend_key,
      slider_value |-> morph_map[k].slider_value,
      unreal_value |-> morph_map[k].unreal_value,
      updated_at |-> Datetime(now)] : k \in DOMAIN morph_map}

\* x.strip() or None for a str, x itself otherwise
StripOrNone(x) ==
    IF IsStr(x) THEN (IF Strip(x.v) = <<>> THEN None ELSE Str(Strip(x.v))) ELSE x

\* the row INSERT INTO avatar_quickmode_settings writes; wall is
\* datetime.now(timezone.utc)
QuickRow(avatar_id, quick_mode_settings, wall) ==
    LET measurements == Get(quick_mode_settings, "measurements")
        provided_updated_at == _coerce_datetime(Get(quick_mode_settings, "updatedAt"))
        timestamp == IF IsNone(provided_updated_at) THEN Datetime(wall)
                     ELSE provided_updated_at
    IN  [avatar_id |-> avatar_id,
         body_shape |-> StripOrNone(Get(quick_mode_settings, "bodyShape")),
         athletic_level |-> StripOrNone(Get(quick_mode_settings, "athleticLevel")),
         measurements |-> IF IsDict(measurements) THEN measurements ELSE EmptyDict,
         created_at |-> timestamp,
         updated_at |-> timestamp]

SatelliteOf(v, t, avatar_id) == {r \in v[t] : r.avatar_id = avatar_id}

----------------------------------------------------------------------------
(* The Profile Assembler: _fetch_measurements and _row_to_avatar           *)

\* the dict f extended with the items of g
With(f, g) ==
    [k \in DOMAIN f \cup DOMAIN g |-> IF k \in DOMAIN g THEN g[k] ELSE f[k]]

\* {key: value} when cond holds, {} otherwise
Item(cond, key, value) == IF cond THEN [k \in {key} |-> value] ELSE EmptyDict

\* {row["measurement_key"]: float(row["value"]) for row in rows}
MeasurementDict(rows) ==
    [k \in {r.measurement_key : r \in rows} |->
        ToFloat((CHOOSE r \in rows : r.measurement_key = k).value)]

\* the item built from the row alone, without the join
MorphItemOfRow(v, row) ==
    With(With(With(With(With(
        [id |-> Str(row.morph_id)],
        Item(Truthy(row.backend_key), "backendKey", row.backend_key)),
        Item(~IsNone(row.slider_value), "sliderValue", ToFloat(row.slider_value))),
        Item(~IsNone(row.slider_value), "value", ToFloat(row.slider_value))),
        Item(~IsNone(row.unreal_value), "unrealValue", ToFloat(row.unreal_value))),
        Item(IsDatetime(row.updated_at), "updatedAt", _isoformat(row.updated_at)))

\* the morph target item built from one row of the left join
MorphItem(v, row) ==
    LET definition == {r \in v.defs : r.id = row.morph_id}
        definition_backend_key ==
            IF definition = {} THEN None
            ELSE (CHOOSE r \in definition : TRUE).backend_key
        backend_key == Or(row.backend_key, definition_backend_key)
    IN  With(With(With(With(With(
            [id |-> Str(row.morph_id)],
            Item(Truthy(backend_key), "backendKey", backend_key)),
            Item(~IsNone(row.slider_value), "sliderValue", ToFloat(row.slider_value))),
            Item(~IsNone(row.slider_value), "value", ToFloat(row.slider_value))),
            Item(~IsNone(row.unreal_value), "unrealValue", ToFloat(row.unreal_value))),
            Item(IsDatetime(row.updated_at), "updatedAt", _isoformat(row.updated_at)))

\* the items of the rows, the greatest id first
RECURSIVE MorphsDescending(_, _)
MorphsDescending(v, rows) ==
    IF rows = {} THEN <<>>
    ELSE LET first == CHOOSE r \in rows :
                        \A o \in rows : ~StrLess(r.morph_id, o.morph_id)
         IN  <<MorphItem(v, first)>> \o MorphsDescending(v, rows \ {first})

\* morphs.sort(key=lambda item: item["id"]) over the items of the rows
RECURSIVE SortedMorphs(_, _)
SortedMorphs(v, rows) ==
    IF rows = {} THEN <<>>
    ELSE LET first == CHOOSE r \in rows :
                        \A o \in rows : ~StrLess(o.morph_id, r.morph_id)
         IN  <<MorphItem(v, first)>> \o SortedMorphs(v, rows \ {first})

\* float(value) for a number, the value itself otherwise
NormalizedMeasurements(measurements) ==
    [k \in DOMAIN measurements |->
        IF IsNumber(measurements[k]) THEN ToFloat(measurements[k])
        ELSE measurements[k]]

\* the quickModeSettings a stored record is read as: None when no value of
\* the dict is true
QuickModeSettingsOf(quick_row) ==
    LET settings ==
            With([bodyShape |-> quick_row.body_shape,
                  athleticLevel |-> quick_row.athletic_level,
                  measurements |-> NormalizedMeasurements(quick_row.measurements)],
                 Item(IsDatetime(quick_row.updated_at), "updatedAt",
                      _isoformat(quick_row.updated_at)))
    IN  IF \E k \in DOMAIN settings : IsTrue(settings[k]) THEN settings ELSE None

_fetch_measurements(v, avatar_id) ==
    LET quick_rows == SatelliteOf(v, "quick", avatar_id)
    IN  [basic |-> MeasurementDict(SatelliteOf(v, "basic", avatar_id)),
         body |-> MeasurementDict(SatelliteOf(v, "body", avatar_id)),
         morphs |-> SortedMorphs(v, SatelliteOf(v, "morphs", avatar_id)),
         quick_mode_settings |->
            IF quick_rows = {} THEN None
            ELSE QuickModeSettingsOf(CHOOSE r \in quick_rows : TRUE)]

\* a quickMode that is the presence of settings alone
RowToAvatarSettingsOnly(row, fetched) ==
    [id |-> row.id,
     userId |-> row.user_id,
     name |-> row.name,
     gender |-> row.gender,
     ageRange |-> row.age_range,
     creationMode |-> row.creation_mode,
     source |-> row.source,
     quickMode |-> fetched.quick_mode_settings # None,
     createdBySession |-> row.created_by_session,
     basicMeasurements |-> fetched.basic,
     bodyMeasurements |-> fetched.body,
     morphTargets |-> fetched.morphs,
     quickModeSettings |-> fetched.quick_mode_settings,
     createdAt |-> IF IsDatetime(row.created_at) THEN _isoformat(row.created_at) ELSE None,
     updatedAt |-> IF IsDatetime(row.updated_at) THEN _isoformat(row.updated_at) ELSE None]

_row_to_avatar(row, fetched) ==
    [id |-> row.id,
     userId |-> row.user_id,
     name |-> row.name,
     gender |-> row.gender,
     ageRange |-> row.age_range,
     creationMode |-> row.creation_mode,
     source |-> row.source,
     quickMode |-> row.quick_mode \/ fetched.quick_mode_settings # None,
     createdBySession |-> row.created_by_session,
     basicMeasurements |-> fetched.basic,
     bodyMeasurements |-> fetched.body,
     morphTargets |-> fetched.morphs,
     quickModeSettings |-> fetched.quick_mode_settings,
     createdAt |-> IF IsDatetime(row.created_at) THEN _isoformat(row.created_at) ELSE None,
     updatedAt |-> IF IsDatetime(row.updated_at) THEN _isoformat(row.updated_at) ELSE None]

\* the profile a reader with view v gets for a header row
Hydrate(v, row) == _row_to_avatar(row, _fetch_measurements(v, row.id))

----------------------------------------------------------------------------
(* The handlers.  A running handler is a record cx: its arguments, the     *)
(* overlay w of its transaction, its locals (slot, row), its statements    *)
(* prog with the index pc of the next one and, once it has ended, its      *)
(* outcome and value.                                                      *)

\* the inserts of _persist_measurements without the deletes before them
PersistProgramNoDelete(m) ==
    (IF DOMAIN StoredMeasurements(m.basic_measurements) # {}
     THEN <<"ins_basic">> ELSE <<>>)
    \o (IF DOMAIN StoredMeasurements(m.body_measurements) # {}
        THEN <<"ins_body">> ELSE <<>>)
    \o (IF DOMAIN MorphMap(m.morph_targets) # {}
        THEN <<"upsert_defs", "ins_morphs">> ELSE <<>>)
    \o (IF IsTrue(m.quick_mode_settings) THEN <<"ins_quick">> ELSE <<>>)

\* the statements _persist_measurements executes for a mutation
PersistProgram(m) ==
    <<"del_basic", "del_body", "del_morphs", "del_quick">>
    \o (IF DOMAIN StoredMeasurements(m.basic_measurements) # {}
        THEN <<"ins_basic">> ELSE <<>>)
    \o (IF DOMAIN StoredMeasurements(m.body_measurements) # {}
        THEN <<"ins_body">> ELSE <<>>)
    \o (IF DOMAIN MorphMap(m.morph_targets) # {}
        THEN <<"upsert_defs", "ins_morphs">> ELSE <<>>)
    \o (IF IsTrue(m.quick_mode_settings) THEN <<"ins_quick">> ELSE <<>>)

\* the statements with the user synchronised last
ProgramSyncLast(op, m) ==
    CASE op = "list" -> <<"select_list", "ensure_user">>
      [] op = "get" -> <<"select_avatar", "fetch">>
      [] op = "create" ->
            <<"find_slot", "insert_avatar">>
            \o PersistProgram(m) \o <<"fetch", "ensure_user">>
      [] op = "update" ->
            <<"select_avatar", "update_avatar">>
            \o PersistProgram(m) \o <<"fetch", "ensure_user">>
      [] op = "delete" ->
            <<"select_avatar", "del_basic", "del_body", "del_morphs",
              "del_quick", "delete_avatar">>

\* the statements with the user synchronised first by every function
ProgramSyncingAll(op, m) ==
    CASE op = "list" -> <<"ensure_user", "select_list">>
      [] op = "get" -> <<"ensure_user", "select_avatar", "fetch">>
      [] op = "create" ->
            <<"ensure_user", "find_slot", "insert_avatar">>
            \o PersistProgram(m) \o <<"fetch">>
      [] op = "update" ->
            <<"ensure_user", "select_avatar", "update_avatar">>
            \o PersistProgram(m) \o <<"fetch">>
      [] op = "delete" ->
            <<"ensure_user", "select_avatar", "del_basic", "del_body", "del_morphs",
              "del_quick", "delete_avatar">>

\* the statements of each repository function, in source order
Program(op, m) ==
    CASE op = "list" -> <<"ensure_user", "select_list">>
      [] op = "get" -> <<"select_avatar", "fetch">>
      [] op = "create" ->
            <<"ensure_user", "find_slot", "insert_avatar">>
            \o PersistProgram(m) \o <<"fetch">>
      [] op = "update" ->
            <<"ensure_user", "select_avatar", "update_avatar">>
            \o PersistProgram(m) \o <<"fetch">>
      [] op = "delete" ->
            <<"select_avatar", "del_basic", "del_body", "del_morphs",
              "del_quick", "delete_avatar">>

Running == "running"

\* a handler entered with these arguments; avatar_id is the uuid4() of a
\* create, now is NOW() of its transaction
Enter(op, user_id, avatar_id, m, user_context, limit, now) ==
    [op |-> op, user_id |-> user_id, avatar_id |-> avatar_id, m |-> m,
     user_context |-> user_context, limit |-> limit, now |-> now,
     w |-> NoWrites, slot |-> 0, row |-> None, prog |-> Program(op, m), pc |-> 1,
     outcome |-> Running, value |-> None]

Raise(cx, error) == [cx EXCEPT !.outcome = error]

Advance(cx, w) == [cx EXCEPT !.w = w, !.pc = @ + 1]

\* a DELETE that removes nothing
KeepSatellite(d, cx, t) == Advance(cx, cx.w)

DeleteSatellite(d, cx, t) ==
    Advance(cx, DeleteRows(d, cx.w, t, SatelliteOf(View(d, cx.w), t, cx.avatar_id)))

\* ORDER BY id
RECURSIVE OrderedById(_)
OrderedById(rows) ==
    IF rows = {} THEN <<>>
    ELSE LET first == CHOOSE r \in rows : \A o \in rows : r.id <= o.id
         IN  <<first>> \o OrderedById(rows \ {first})

\* ORDER BY created_at, id
RECURSIVE OrderedRows(_)
OrderedRows(rows) ==
    IF rows = {} THEN <<>>
    ELSE LET first == CHOOSE r \in rows : \A o \in rows :
                        \/ r.created_at.v < o.created_at.v
                        \/ r.created_at.v = o.created_at.v /\ r.id <= o.id
         IN  <<first>> \o OrderedRows(rows \ {first})

\* rows[:limit]
Truncated(rows, limit) ==
    SubSeq(rows, 1, IF limit >= 0
                    THEN (IF limit < Len(rows) THEN limit ELSE Len(rows))
                    ELSE (IF Len(rows) + limit > 0 THEN Len(rows) + limit ELSE 0))

ListValue(v, user_id, limit) ==
    LET rows == OrderedRows({r \in v.avatars : r.user_id = user_id})
        shown == Truncated(rows, limit)
        items == [i \in 1..Len(shown) |-> Hydrate(v, shown[i])]
    IN  [userId |-> user_id, limit |-> limit, count |-> Len(items),
         total |-> Len(rows), items |-> items]

\* the statement at cx.pc, executed against the committed tables d; wall is
\* the wall clock
Exec(d, cx, wall) ==
    LET stmt == cx.prog[cx.pc]
        v == View(d, cx.w)
        found == SelectAvatar(v, cx.avatar_id, cx.user_id)
    IN  CASE stmt = "ensure_user" ->
                Advance(cx, _ensure_user(d, cx.w, cx.user_id, cx.user_context, cx.now))
          [] stmt = "select_list" ->
                [Advance(cx, cx.w) EXCEPT !.value = ListValue(v, cx.user_id, cx.limit)]
          [] stmt = "select_avatar" ->
                IF found = {} THEN Raise(cx, "NotFound")
                ELSE [Advance(cx, cx.w) EXCEPT !.row = CHOOSE r \in found : TRUE]
          [] stmt = "find_slot" ->
                IF _find_available_slot(v, cx.user_id) = 0
                THEN Raise(cx, "QuotaExceeded")
                ELSE [Advance(cx, cx.w) EXCEPT
                        !.slot = _find_available_slot(v, cx.user_id)]
          [] stmt = "insert_avatar" ->
                LET row == NewAvatarRow(cx.avatar_id, cx.user_id, cx.slot, cx.m, cx.now)
                IN  IF UniqueViolation(v, row.id, row.user_id, row.name)
                    THEN Raise(cx, "DuplicateName")
                    ELSE [Advance(cx, InsertRows(cx.w, "avatars", {row}))
                            EXCEPT !.row = row]
          [] stmt = "update_avatar" ->
                LET old == {r \in v.avatars : r.id = cx.avatar_id}
                    new == {UpdatedAvatarRow(r, cx.m, cx.now) : r \in old}
                IN  IF \E r \in new : UniqueViolation(v, r.id, r.user_id, r.name)
                    THEN Raise(cx, "DuplicateName")
                    ELSE [Advance(cx, InsertRows(DeleteRows(d, cx.w, "avatars", old),
                                                 "avatars", new))
                            EXCEPT !.row = IF new = {} THEN None
                                           ELSE CHOOSE r \in new : TRUE]
          [] stmt = "del_basic" -> DeleteSatellite(d, cx, "basic")
          [] stmt = "del_body" -> DeleteSatellite(d, cx, "body")
          [] stmt = "del_morphs" -> DeleteSatellite(d, cx, "morphs")
          [] stmt = "del_quick" -> DeleteSatellite(d, cx, "quick")
          [] stmt = "ins_basic" ->
                Advance(cx, InsertRows(cx.w, "basic",
                    MeasurementRows(cx.avatar_id, StoredMeasurements(cx.m.basic_measurements))))
          [] stmt = "ins_body" ->
                Advance(cx, InsertRows(cx.w, "body",
                    MeasurementRows(cx.avatar_id, StoredMeasurements(cx.m.body_measurements))))
          [] stmt = "upsert_defs" ->
                Advance(cx, UpsertDefinitions(d, cx.w, MorphMap(cx.m.morph_targets), cx.now))
          [] stmt = "ins_morphs" ->
                Advance(cx, InsertRows(cx.w, "morphs",
                    MorphRows(cx.avatar_id, MorphMap(cx.m.morph_targets), cx.now)))
          [] stmt = "ins_quick" ->
                Advance(cx, InsertRows(cx.w, "quick",
                    {QuickRow(cx.avatar_id, cx.m.quick_mode_settings, wall)}))
          [] stmt = "fetch" ->
                IF cx.row = None THEN Raise(cx, "TypeError")
                ELSE [Advance(cx, cx.w) EXCEPT !.value = Hydrate(v, cx.row)]
          [] stmt = "delete_avatar" ->
                Advance(cx, DeleteRows(d, cx.w, "avatars", found))

\* the handler run to its end with no other transaction in progress: fault
\* is the index of the statement at which the store raises (0: none; one
\* past the last statement: conn.commit() raises)
RECURSIVE Run(_, _, _, _)
Run(d, cx, wall, fault) ==
    IF cx.outcome # Running THEN cx
    ELSE IF cx.pc = fault THEN Raise(cx, "StorageFault")
    ELSE IF cx.pc > Len(cx.prog) THEN [cx EXCEPT !.outcome = "ok"]
    ELSE Run(d, Exec(d, cx, wall), wall, fault)

\* a context manager that commits whatever the handler has written
CommitAlways(d, cx) == View(d, cx.w)

\* _connection: what the context manager leaves committed when the handler
\* has ended: conn.commit() after a normal exit, conn.rollback() after an
\* exception
_connection(d, cx) == IF cx.outcome = "ok" THEN View(d, cx.w) ELSE d

----------------------------------------------------------------------------
(* Values of a JSON payload.  A number keeps its Python type (bool, int or *)
(* float); a list is its sequence of items; a mapping is a dict with the   *)
(* order of its items and with keys that are str, used where the code      *)
(* iterates over a dict or edits its keys.                                 *)

PyInt(n) == [t |-> "int", v |-> n]
Bool(b) == [t |-> "bool", v |-> IF b THEN 1 ELSE 0]
List(items) == [t |-> "list", v |-> items]
Mapping(items) == [t |-> "mapping", v |-> items]

\* an item of a mapping
KeyValue(key, value) == [key |-> key, value |-> value]

IsScalar(x) == "t" \in DOMAIN x
IsBool(x) == IsScalar(x) /\ x.t = "bool"
IsList(x) == IsScalar(x) /\ x.t = "list"
IsMapping(x) == IsScalar(x) /\ x.t = "mapping"
IsText(x) == IsScalar(x) /\ x.t = "str"
IsNumeric(x) == IsScalar(x) /\ x.t \in {"int", "float", "bool"}
IsNull(x) == IsScalar(x) /\ x.t = "None"

\* str.lower() of one character
LowerChar(ch) ==
    IF Ord(ch) >= 65 /\ Ord(ch) <= 90
    THEN CHOOSE c \in {"a", "b", "c", "d", "e", "f", "g", "h", "i", "j", "k", "l",
                       "m", "n", "o", "p", "q", "r", "s", "t", "u", "v", "w", "x",
                       "y", "z"} : Ord(c) = Ord(ch) + 32
    ELSE ch

\* str.lower()
Lower(s) == [i \in 1..Len(s) |-> LowerChar(s[i])]

\* str.replace(" ", "_")
ReplaceSpaces(s) == [i \in 1..Len(s) |-> IF s[i] = " " THEN "_" ELSE s[i]]

\* the least of the strings alone
LeastStr(S) ==
    IF S = {} THEN <<>>
    ELSE <<CHOOSE s \in S : \A o \in S \ {s} : StrLess(s, o)>>

\* sorted() of a set of str
RECURSIVE SortedStrs(_)
SortedStrs(S) ==
    IF S = {} THEN <<>>
    ELSE LET first == CHOOSE s \in S : \A o \in S \ {s} : StrLess(s, o)
         IN  <<first>> \o SortedStrs(S \ {first})

\* abort(400, description=...): the field the description names, what it
\* says of it, and the names it lists
Abort(field, says, names) ==
    [t |-> "abort", status |-> 400, field |-> field, says |-> says, names |-> names]

IsAbort(x) == IsScalar(x) /\ x.t = "abort"

----------------------------------------------------------------------------
(* The normalizers of routes.py                                            *)

_ALLOWED_GENDERS ==
    {<<"f", "e", "m", "a", "l", "e">>, <<"m", "a", "l", "e">>,
     <<"n", "o", "n", "_", "b", "i", "n", "a", "r", "y">>,
     <<"u", "n", "s", "p", "e", "c", "i", "f", "i", "e", "d">>}

_AGE_RANGE_UI_LABELS ==
    <<<<"1", "5", "-", "1", "9">>, <<"2", "0", "-", "2", "9">>,
     <<"3", "0", "-", "3", "9">>, <<"4", "0", "-", "4", "9">>,
     <<"5", "0", "-", "5", "9">>, <<"6", "0", "-", "6", "9">>,
     <<"7", "0", "-", "7", "9">>, <<"8", "0", "-", "8", "9">>,
     <<"9", "0", "-", "9", "9">>>>

_ALLOWED_AGE_RANGES ==
    {<<"c", "h", "i", "l", "d">>, <<"t", "e", "e", "n">>,
     <<"y", "o", "u", "n", "g", "_", "a", "d", "u", "l", "t">>,
     <<"a", "d", "u", "l", "t">>, <<"m", "a", "t", "u", "r", "e">>,
     <<"s", "e", "n", "i", "o", "r">>}
    \cup {Lower(_AGE_RANGE_UI_LABELS[i]) : i \in 1..Len(_AGE_RANGE_UI_LABELS)}

_ALLOWED_CREATION_MODES ==
    {<<"m", "a", "n", "u", "a", "l">>, <<"s", "c", "a", "n">>,
     <<"p", "r", "e", "s", "e", "t">>, <<"i", "m", "p", "o", "r", "t">>}

_ALLOWED_SOURCES ==
    {<<"w", "e", "b">>, <<"i", "o", "s">>,
     <<"a", "n", "d", "r", "o", "i", "d">>, <<"k", "i", "o", "s", "k">>,
     <<"a", "p", "i">>,
     <<"i", "n", "t", "e", "g", "r", "a", "t", "i", "o", "n">>}

\* a comparison with the allow-list that tells upper case from lower case
EnumCaseSensitive(value, field, allowed) ==
    IF IsNull(value) THEN None
    ELSE IF ~IsText(value) THEN Abort(field, "must be a string", <<>>)
    ELSE LET normalized == Strip(value.v)
         IN  IF normalized = <<>> THEN None
             ELSE IF normalized \notin allowed
                  THEN Abort(field, "must be one of", SortedStrs(allowed))
                  ELSE Str(normalized)

_normalize_enum(value, field, allowed) ==
    IF IsNull(value) THEN None
    ELSE IF ~IsText(value) THEN Abort(field, "must be a string", <<>>)
    ELSE LET normalized == Lower(Strip(value.v))
         IN  IF normalized = <<>> THEN None
             ELSE IF normalized \notin allowed
                  THEN Abort(field, "must be one of", SortedStrs(allowed))
                  ELSE Str(normalized)

_normalize_optional_string(value, field) ==
    IF IsNull(value) THEN None
    ELSE IF ~IsText(value) THEN Abort(field, "must be a string", <<>>)
    ELSE IF Strip(value.v) = <<>> THEN None ELSE Str(Strip(value.v))

_normalize_creation_mode(value) ==
    _normalize_enum(value, "creationMode", _ALLOWED_CREATION_MODES)

_normalize_optional_float(value, field) ==
    IF IsNull(value) THEN None
    ELSE IF IsNumeric(value) THEN ToFloat(value)
    ELSE Abort(field, "must be a number", <<>>)

\* a conversion that does not keep the number
ShiftedFloat(value, field) ==
    IF IsNull(value) THEN Abort(field, "must be a number", <<>>)
    ELSE IF IsNumeric(value) THEN Float(value.v + 1)
    ELSE Abort(field, "must be a number", <<>>)

_normalize_float(value, field) ==
    IF IsNull(value) THEN Abort(field, "must be a number", <<>>)
    ELSE _normalize_optional_float(value, field)

\* the characters of the keys the model's measurement dicts have
Chars(key) ==
    CASE key = "waist" -> <<"w", "a", "i", "s", "t">>
      [] key = "hips" -> <<"h", "i", "p", "s">>
      [] OTHER -> <<key>>

KnownKeys == {"waist", "hips", "a", "b"}

\* the dict key with these characters
Key(s) == CHOOSE key \in KnownKeys : Chars(key) = s

\* the keys of a mapping, and mapping.get(key)
Keys(mapping) == {mapping.v[i].key : i \in 1..Len(mapping.v)}

MGet(mapping, key) ==
    IF key \in Keys(mapping)
    THEN (CHOOSE item \in {mapping.v[i] : i \in 1..Len(mapping.v)} : item.key = key).value
    ELSE None

\* the first abort of a sequence of results, None when there is none
RECURSIVE FirstAbort(_)
FirstAbort(results) ==
    IF results = <<>> THEN None
    ELSE IF IsAbort(Head(results)) THEN Head(results)
    ELSE FirstAbort(Tail(results))

\* a normalization that leaves the status keys among the measurements
MeasurementsWithStatus(section, section_name) ==
    IF IsNull(section) THEN [normalized |-> EmptyDict, statuses |-> EmptyDict]
    ELSE IF ~IsDict(section)
    THEN Abort(section_name, "must be an object of numeric values", <<>>)
    ELSE LET status == IF "creationMode" \in DOMAIN section
                       THEN _normalize_creation_mode(section["creationMode"])
                       ELSE None
             bad == {k \in DOMAIN section \ _MEASUREMENT_STATUS_KEYS :
                        ~IsNumeric(section[k])}
         IN  IF IsAbort(status) THEN status
             ELSE IF bad # {}
             THEN Abort(section_name, "must be a number",
                        <<Chars(CHOOSE k \in bad : TRUE)>>)
             ELSE [normalized |->
                        [k \in DOMAIN section |->
                            IF k \in _MEASUREMENT_STATUS_KEYS THEN status
                            ELSE ToFloat(section[k])],
                   statuses |-> Item(~IsNull(status), "creationMode", status)]

\* _normalize_measurements: (normalized, statuses), or the abort of an
\* offending item (the dicts of the model have no order; the payloads
\* considered have one offending item at most)
_normalize_measurements(section, section_name) ==
    IF IsNull(section) THEN [normalized |-> EmptyDict, statuses |-> EmptyDict]
    ELSE IF ~IsDict(section)
    THEN Abort(section_name, "must be an object of numeric values", <<>>)
    ELSE LET status == IF "creationMode" \in DOMAIN section
                       THEN _normalize_creation_mode(section["creationMode"])
                       ELSE None
             others == DOMAIN section \ _MEASUREMENT_STATUS_KEYS
             bad == {k \in others : ~IsNumeric(section[k])}
         IN  IF IsAbort(status) THEN status
             ELSE IF bad # {}
             THEN Abort(section_name, "must be a number",
                        <<Chars(CHOOSE k \in bad : TRUE)>>)
             ELSE [normalized |-> [k \in others |-> ToFloat(section[k])],
                   statuses |-> Item(~IsNull(status), "creationMode", status)]

\* value.strip().lower().replace(" ", "_"), kept when it is empty
ShapeOrEmpty(value) ==
    IF IsText(value) THEN Str(ReplaceSpaces(Lower(Strip(value.v)))) ELSE value

\* body_shape.strip().lower().replace(" ", "_") or None
ShapeOrNone(value) ==
    IF IsText(value)
    THEN (IF Strip(value.v) = <<>> THEN None
          ELSE Str(ReplaceSpaces(Lower(Strip(value.v)))))
    ELSE value

\* the loop over quickModeSettings.measurements: the dict built so far, or
\* the abort of the first offending item
RECURSIVE QuickMeasurements(_)
QuickMeasurements(items) ==
    IF items = <<>> THEN EmptyDict
    ELSE LET n == Len(items)
             rest == QuickMeasurements(SubSeq(items, 1, n - 1))
             normalized_key == Strip(items[n].key)
             value == _normalize_float(items[n].value, "quickModeSettings.measurements")
         IN  IF IsAbort(rest) THEN rest
             ELSE IF normalized_key = <<>>
             THEN Abort("quickModeSettings.measurements", "keys must not be empty", <<>>)
             ELSE IF IsAbort(value)
             THEN [value EXCEPT !.names = <<normalized_key>>]
             ELSE With(rest, Item(TRUE, Key(normalized_key), value))

\* the keys quickModeSettings may have
BodyShapeKey == <<"b", "o", "d", "y", "S", "h", "a", "p", "e">>
AthleticLevelKey ==
    <<"a", "t", "h", "l", "e", "t", "i", "c", "L", "e", "v", "e", "l">>
MeasurementsKey ==
    <<"m", "e", "a", "s", "u", "r", "e", "m", "e", "n", "t", "s">>

_normalize_quick_mode_settings(payload) ==
    IF IsNull(payload) THEN None
    ELSE IF ~IsMapping(payload) THEN Abort("quickModeSettings", "must be an object", <<>>)
    ELSE LET allowed_keys == {BodyShapeKey, AthleticLevelKey, MeasurementsKey}
             unexpected == Keys(payload) \ allowed_keys
             body_shape == MGet(payload, BodyShapeKey)
             athletic_level == MGet(payload, AthleticLevelKey)
             measurements_payload == MGet(payload, MeasurementsKey)
             measurements == IF IsNull(measurements_payload) THEN EmptyDict
                             ELSE QuickMeasurements(measurements_payload.v)
         IN  IF unexpected # {}
             THEN Abort("quickModeSettings", "contains unsupported fields",
                        SortedStrs(unexpected))
             ELSE IF ~IsNull(body_shape) /\ ~IsText(body_shape)
             THEN Abort("quickModeSettings.bodyShape", "must be a string", <<>>)
             ELSE IF ~IsNull(athletic_level) /\ ~IsText(athletic_level)
             THEN Abort("quickModeSettings.athleticLevel", "must be a string", <<>>)
             ELSE IF ~IsNull(measurements_payload) /\ ~IsMapping(measurements_payload)
             THEN Abort("quickModeSettings.measurements", "must be an object of numbers",
                        <<>>)
             ELSE IF IsAbort(measurements) THEN measurements
             ELSE LET normalized ==
                        With(With(
                            Item(~IsNull(ShapeOrNone(body_shape)), "bodyShape",
                                 ShapeOrNone(body_shape)),
                            Item(~IsNull(ShapeOrNone(athletic_level)), "athleticLevel",
                                 ShapeOrNone(athletic_level))),
                            Item(measurements # EmptyDict, "measurements", measurements))
                  IN  IF DOMAIN normalized = {} THEN None ELSE normalized

\* str(x) of a number
Digits(n) ==
    <<CHOOSE c \in {"0", "1", "2", "3", "4", "5", "6", "7", "8", "9"} : Ord(c) = 48 + n>>

StrOf(x) ==
    CASE x.t = "str" -> x.v
      [] x.t = "int" -> Digits(x.v)
      [] x.t = "float" -> Digits(x.v) \o <<".", "0">>
      [] x.t = "bool" -> IF x.v = 1 THEN <<"T", "r", "u", "e">> ELSE <<"F", "a", "l", "s", "e">>

_normalize_morph_entry(morph_id, raw_value) ==
    IF IsNull(morph_id) THEN Abort("morphTargets", "require an id", <<>>)
    ELSE LET id == Strip(StrOf(morph_id))
             backend_key_value ==
                IF IsDict(raw_value) THEN Get(raw_value, "backendKey") ELSE None
             backend_key ==
                IF IsNull(backend_key_value) \/ Strip(StrOf(backend_key_value)) = <<>>
                THEN None ELSE Str(Strip(StrOf(backend_key_value)))
             slider_candidate ==
                IF IsDict(raw_value)
                THEN (IF IsNull(Get(raw_value, "sliderValue")) /\ "value" \in DOMAIN raw_value
                      THEN Get(raw_value, "value") ELSE Get(raw_value, "sliderValue"))
                ELSE raw_value
             slider_value == _normalize_optional_float(slider_candidate, "morphTargets.sliderValue")
             unreal_value ==
                IF IsDict(raw_value)
                THEN _normalize_optional_float(Get(raw_value, "unrealValue"),
                                               "morphTargets.unrealValue")
                ELSE None
         IN  IF id = <<>> THEN Abort("morphTargets", "ids must not be empty", <<>>)
             ELSE IF ~IsDict(raw_value) /\ ~IsNumeric(raw_value) /\ ~IsNull(raw_value)
             THEN Abort("morphTargets", "must be numbers or objects", <<id>>)
             ELSE IF IsAbort(slider_value) THEN [slider_value EXCEPT !.names = <<id>>]
             ELSE IF IsAbort(unreal_value) THEN [unreal_value EXCEPT !.names = <<id>>]
             ELSE With(With(With(With(
                    [id |-> Str(id)],
                    Item(~IsNull(backend_key), "backendKey", backend_key)),
                    Item(~IsNull(slider_value), "sliderValue", slider_value)),
                    Item(~IsNull(slider_value), "value", slider_value)),
                    Item(~IsNull(unreal_value), "unrealValue", unreal_value))

\* the entry _normalize_morph_targets makes of one item of the payload
MorphEntry(payload, i) ==
    LET entry == payload.v[i]
    IN  IF IsMapping(payload) THEN _normalize_morph_entry(Str(entry.key), entry.value)
        ELSE IF IsDict(entry)
        THEN (IF IsNull(Get(entry, "id"))
              THEN Abort("morphTargets", "must include an id", <<>>)
              ELSE _normalize_morph_entry(Get(entry, "id"), entry))
        ELSE IF IsList(entry) /\ Len(entry.v) = 2
        THEN _normalize_morph_entry(entry.v[1], entry.v[2])
        ELSE Abort("morphTargets", "must be provided as objects with id/value data", <<>>)

\* the first item of each id
CollapsedFirst(items) ==
    [id \in {items[i].id.v : i \in 1..Len(items)} |->
        items[CHOOSE i \in 1..Len(items) :
                /\ items[i].id.v = id
                /\ \A j \in 1..(i - 1) : items[j].id.v # id]]

\* collapsed: the last item of each id
Collapsed(items) ==
    [id \in {items[i].id.v : i \in 1..Len(items)} |->
        items[CHOOSE i \in 1..Len(items) :
                /\ items[i].id.v = id
                /\ \A j \in (i + 1)..Len(items) : items[j].id.v # id]]

\* _normalize_morph_targets: the list of entries, or an abort
_normalize_morph_targets(payload) ==
    IF IsNull(payload) THEN List(<<>>)
    ELSE IF ~IsMapping(payload) /\ ~IsList(payload)
    THEN Abort("morphTargets", "must be provided as an object or list of objects", <<>>)
    ELSE LET items == [i \in 1..Len(payload.v) |-> MorphEntry(payload, i)]
         IN  IF ~IsNull(FirstAbort(items)) THEN FirstAbort(items)
             ELSE LET collapsed == Collapsed(items)
                      keys == SortedStrs(DOMAIN collapsed)
                  IN  List([i \in 1..Len(keys) |-> collapsed[keys[i]]])

\* a flag that is the payload's alone
QuickModeFlagOnly(quick_mode_value, quick_mode_settings) ==
    IF IsNull(quick_mode_value) THEN Bool(FALSE)
    ELSE IF IsBool(quick_mode_value) THEN quick_mode_value
    ELSE Abort("quickMode", "must be a boolean value", <<>>)

\* quick_mode as _apply_payload computes it from payload.get("quickMode")
\* and the normalized settings (bool(settings) is settings is not None: an
\* empty dict is never returned by _normalize_quick_mode_settings)
QuickMode(quick_mode_value, quick_mode_settings) ==
    IF IsNull(quick_mode_value) THEN Bool(IsTrue(quick_mode_settings))
    ELSE IF IsBool(quick_mode_value)
    THEN Bool(quick_mode_value.v = 1 \/ IsTrue(quick_mode_settings))
    ELSE Abort("quickMode", "must be a boolean value", <<>>)

\* the normalizations of _apply_payload, in the order of their aborts, and the
\* keyword arguments they come to
Normalizations(name, gender, age_range, creation_mode, source, quick_mode_settings, quick_mode, created_by_session, basic, body, morph_targets) ==
    LET name_check == IF ~IsNull(name) /\ ~IsText(name)
                      THEN Abort("name", "must be a string", <<>>) ELSE None
        measurement_creation_mode ==
            IF ~IsNull(Get(basic.statuses, "creationMode"))
            THEN Get(basic.statuses, "creationMode")
            ELSE Get(body.statuses, "creationMode")
        conflict ==
            IF IsAbort(basic) \/ IsAbort(body) \/ IsAbort(creation_mode) THEN None
            ELSE IF /\ ~IsNull(measurement_creation_mode)
                    /\ ~IsNull(creation_mode)
                    /\ creation_mode # measurement_creation_mode
            THEN Abort("creationMode", "does not match the top-level value", <<>>)
            ELSE None
        first == FirstAbort(<<name_check, gender, age_range, creation_mode, source,
                              quick_mode_settings, quick_mode, created_by_session,
                              basic, body, conflict, morph_targets>>)
    IN  IF ~IsNull(first) THEN first
        ELSE [name |-> IF IsText(name) THEN name.v ELSE <<>>,
              gender |-> gender,
              age_range |-> age_range,
              creation_mode |-> IF ~IsNull(measurement_creation_mode)
                                THEN measurement_creation_mode ELSE creation_mode,
              source |-> source,
              quick_mode |-> quick_mode.v = 1,
              created_by_session |-> created_by_session,
              basic_measurements |-> basic.normalized,
              body_measurements |-> body.normalized,
              morph_targets |-> morph_targets.v,
              quick_mode_settings |-> quick_mode_settings]

\* the settings are normalized once, for quick_mode and for the arguments
WithSettings(payload, quick_mode_settings) ==
    Normalizations(
        Get(payload, "name"),
        _normalize_enum(Get(payload, "gender"), "gender", _ALLOWED_GENDERS),
        _normalize_enum(Get(payload, "ageRange"), "ageRange", _ALLOWED_AGE_RANGES),
        _normalize_creation_mode(Get(payload, "creationMode")),
        _normalize_enum(Get(payload, "source"), "source", _ALLOWED_SOURCES),
        quick_mode_settings,
        QuickMode(Get(payload, "quickMode"), quick_mode_settings),
        _normalize_optional_string(Get(payload, "createdBySession"), "createdBySession"),
        _normalize_measurements(Get(payload, "basicMeasurements"), "basicMeasurements"),
        _normalize_measurements(Get(payload, "bodyMeasurements"), "bodyMeasurements"),
        _normalize_morph_targets(Get(payload, "morphTargets")))

\* _apply_payload up to its call of the repository: the keyword arguments
\* of that call, or the first abort in source order
ProfileMutation(payload) ==
    IF ~IsDict(payload) THEN Abort("payload", "must be a JSON object", <<>>)
    ELSE WithSettings(payload,
                      _normalize_quick_mode_settings(Get(payload, "quickModeSettings")))

----------------------------------------------------------------------------
(* uuid.UUID(avatar_id), as the standard library computes it               *)

\* s.startswith(prefix)
StartsWith(s, prefix) ==
    Len(s) >= Len(prefix) /\ SubSeq(s, 1, Len(prefix)) = prefix

\* s.replace(sub, "")
RECURSIVE Removed(_, _)
Removed(s, sub) ==
    IF s = <<>> THEN <<>>
    ELSE IF StartsWith(s, sub) THEN Removed(SubSeq(s, Len(sub) + 1, Len(s)), sub)
    ELSE <<Head(s)>> \o Removed(Tail(s), sub)

\* s.strip("{}")
RECURSIVE StripBraces(_)
StripBraces(s) ==
    IF s # <<>> /\ Head(s) \in {"{", "}"} THEN StripBraces(Tail(s))
    ELSE IF s # <<>> /\ s[Len(s)] \in {"{", "}"}
    THEN StripBraces(SubSeq(s, 1, Len(s) - 1))
    ELSE s

ValueError == -1

\* the value of a hexadecimal digit, ValueError for another character
HexOf(c) ==
    IF c >= 48 /\ c <= 57 THEN c - 48
    ELSE IF c >= 97 /\ c <= 102 THEN c - 87
    ELSE ValueError

HexDigit(ch) == HexOf(Ord(LowerChar(ch)))

\* the digits of an int literal: single underscores between digits are
\* skipped
RECURSIVE HexValue(_, _)
HexValue(s, acc) ==
    IF s = <<>> THEN acc
    ELSE IF Head(s) = "_"
    THEN (IF Len(s) > 1 /\ HexDigit(s[2]) # ValueError
          THEN HexValue(Tail(s), acc) ELSE ValueError)
    ELSE IF HexDigit(Head(s)) = ValueError THEN ValueError
    ELSE HexValue(Tail(s), acc * 16 + HexDigit(Head(s)))

\* the digits after an optional 0x or 0X
Unprefixed(unsigned) ==
    IF StartsWith(unsigned, <<"0", "x">>) \/ StartsWith(unsigned, <<"0", "X">>)
    THEN SubSeq(unsigned, 3, Len(unsigned)) ELSE unsigned

\* the value of digits that begin with a digit
Digits16(digits) ==
    IF digits = <<>> \/ HexDigit(Head(digits)) = ValueError
    THEN ValueError ELSE HexValue(digits, 0)

Negated(value) == IF value = ValueError THEN ValueError ELSE -value

\* an optional sign, then the digits
SignedInt(stripped) ==
    IF stripped # <<>> /\ Head(stripped) = "-"
    THEN Negated(Digits16(Unprefixed(Tail(stripped))))
    ELSE IF stripped # <<>> /\ Head(stripped) = "+"
    THEN Digits16(Unprefixed(Tail(stripped)))
    ELSE Digits16(Unprefixed(stripped))

\* int(s, 16): surrounding whitespace, a sign and a 0x prefix are accepted
IntBase16(s) == SignedInt(Strip(s))

\* if not 0 <= int < 1 << 128: raise ValueError
InRange(int) == IF int < 0 THEN ValueError ELSE int

\* if len(hex) != 32: raise ValueError; int_(hex, 16)
Hex32(hex) == IF Len(hex) # 32 THEN ValueError ELSE InRange(IntBase16(hex))

\* uuid.UUID(text): the 128-bit value, or ValueError
UUID(text) ==
    Hex32(Removed(StripBraces(Removed(Removed(text, <<"u", "r", "n", ":">>),
                                      <<"u", "u", "i", "d", ":">>)), <<"-">>))

----------------------------------------------------------------------------
(* Bounds and inputs                                                       *)

\* avatar ids (uuid4 values) a behaviour may store
MaxUuid == 2
\* avatar ids a behaviour that fills a user's slots may store
MaxQuotaUuid == 6
\* ticks of the clock
MaxClock == 1

Users == {"u1", "u2"}

Uuids == 1..MaxUuid

\* names as the routes hand them to the repository: not trimmed
NameA == <<"a">>
NameB == <<"b">>
PaddedA == <<" ", "a", " ">>
Blank == <<" ">>

\* the header fields of a mutation: all absent, or all given
HeaderFields(given) ==
    IF given
    THEN [gender |-> Str(<<"m", "a", "l", "e">>), age_range |-> Str(<<"t", "e", "e", "n">>),
          creation_mode |-> Str(<<"m", "a", "n", "u", "a", "l">>),
          source |-> Str(<<"a", "p", "i">>), created_by_session |-> Str(<<"c">>)]
    ELSE [gender |-> None, age_range |-> None, creation_mode |-> None,
          source |-> None, created_by_session |-> None]

\* satellite data of a mutation, as _normalize_measurements,
\* _normalize_morph_targets and _normalize_quick_mode_settings return them
NoSatellites ==
    [basic_measurements |-> EmptyDict, body_measurements |-> EmptyDict,
     morph_targets |-> <<>>, quick_mode_settings |-> None]

SatellitesOne ==
    [basic_measurements |-> [height |-> Float(1)],
     body_measurements |-> [chest |-> Float(2)],
     morph_targets |->
        <<[id |-> Str(<<"a">>), backendKey |-> Str(<<"k">>),
           sliderValue |-> Float(1), value |-> Float(1)],
          [id |-> Str(<<"b">>), unrealValue |-> Float(2)]>>,
     quick_mode_settings |-> [bodyShape |-> Str(<<"d">>)]]

SatellitesTwo ==
    [basic_measurements |-> [height |-> Float(2), neck |-> Float(1)],
     body_measurements |-> EmptyDict,
     morph_targets |-> <<[id |-> Str(<<"a">>), sliderValue |-> Float(2), value |-> Float(2)]>>,
     quick_mode_settings |-> [measurements |-> [waist |-> Float(1)]]]

\* the mutation _apply_payload passes on: quick_mode is the payload's flag
\* or'ed with the presence of settings
Mutation(name, given, flag, sat) ==
    LET h == HeaderFields(given)
    IN  [name |-> name, gender |-> h.gender, age_range |-> h.age_range,
         creation_mode |-> h.creation_mode, source |-> h.source,
         quick_mode |-> flag \/ sat.quick_mode_settings # None,
         created_by_session |-> h.created_by_session,
         basic_measurements |-> sat.basic_measurements,
         body_measurements |-> sat.body_measurements,
         morph_targets |-> sat.morph_targets,
         quick_mode_settings |-> sat.quick_mode_settings]

Mutations ==
    {Mutation(NameA, FALSE, FALSE, NoSatellites),
     Mutation(PaddedA, TRUE, TRUE, SatellitesOne),
     Mutation(Blank, FALSE, FALSE, SatellitesTwo),
     Mutation(NameB, TRUE, FALSE, SatellitesTwo),
     Mutation(NameB, FALSE, TRUE, SatellitesOne)}

\* mutations told apart by the name they store
FaultMutations ==
    {Mutation(NameA, FALSE, FALSE, NoSatellites),
     Mutation(NameB, TRUE, TRUE, SatellitesOne),
     Mutation(Blank, FALSE, FALSE, SatellitesTwo)}

FaultUsers == {"u1"}

\* statements of the longest handler, and its commit
MaxFault == 14

\* mutations of the users who fill their slots: a Create names the profile
\* after the id it is about to get, an Update keeps that name or renames the
\* profile to a name all profiles compete for
QuotaNames == <<<<"n", "1">>, <<"n", "2">>, <<"n", "3">>, <<"n", "4">>,
                <<"n", "5">>, <<"n", "6">>, <<"n", "7">>, <<"n", "8">>>>

QuotaMutation(avatar_id) == Mutation(QuotaNames[avatar_id], FALSE, FALSE, NoSatellites)

Renamed == Mutation(NameA, TRUE, FALSE, NoSatellites)

QuotaUsers == {"u1"}

Contexts == {None}

Limits == {5}

----------------------------------------------------------------------------
(* State and operations                                                    *)

\* connections of the pool
MaxConns == 2

Conns == 1..MaxConns

\* a connection no handler holds
Idle == [outcome |-> "idle"]

NoResponse ==
    [op |-> "none", user_id |-> "", avatar_id |-> 0, m |-> None,
     outcome |-> "none", value |-> None, rolled_back |-> {}]

\* what a route was called with: the avatar_id of the URL as text, the JSON
\* body, and whether the repository opened a connection for it
Request(op, user_id, avatar_id, payload, began) ==
    [op |-> op, user_id |-> user_id, avatar_id |-> avatar_id, payload |-> payload,
     began |-> began]

NoRequest == Request("none", "", <<>>, None, FALSE)

\* what the caller of an ended handler observes (m and value are kept for
\* the outcomes that depend on them), and the tables whose uncommitted
\* writes a failed handler had made
Response(cx) ==
    [op |-> cx.op, user_id |-> cx.user_id,
     avatar_id |-> IF cx.op = "create" /\ cx.outcome # "ok" THEN 0 ELSE cx.avatar_id,
     m |-> IF cx.outcome \in {"ok", "DuplicateName"} THEN cx.m ELSE None,
     outcome |-> cx.outcome,
     value |-> IF cx.outcome = "ok" THEN cx.value ELSE None,
     rolled_back |-> IF cx.outcome = "ok" THEN {}
                     ELSE {t \in TableNames : cx.w.ins[t] # {} \/ cx.w.del[t] # {}}]

Init ==
    /\ db = EmptyTables
    /\ clock = 0
    /\ next_uuid = 1
    /\ resp = NoResponse
    /\ fresh = None
    /\ pool = [c \in Conns |-> Idle]
    /\ req = NoRequest

\* the instants at which the next request may begin
Nows == {n \in {clock, clock + 1} : n <= MaxClock}

\* the handler cx has run to its end at instant now
Complete(cx, now) ==
    /\ db' = _connection(db, cx)
    /\ clock' = now
    /\ resp' = Response(cx)
    /\ next_uuid' = IF cx.op = "create" /\ cx.outcome = "ok"
                    THEN next_uuid + 1 ELSE next_uuid
    /\ fresh' = IF cx.op = "create" /\ cx.outcome = "ok"
                THEN [id |-> cx.avatar_id, user_id |-> cx.user_id, m |-> cx.m]
                ELSE IF cx.op = "get" THEN fresh ELSE None
    /\ pool' = pool

\* a repository function called directly, not through a route
Finish(cx, now) == Complete(cx, now) /\ req' = req

\* a storage fault can be raised by a statement of the handler or by its
\* commit; fault = 0 is a run without one
CanFault(op, m, fault) == fault <= Len(Program(op, m)) + 1

list_avatars(user_id, limit, user_context, now, fault) ==
    /\ CanFault("list", None, fault)
    /\ \E cx \in {Run(db, Enter("list", user_id, 0, None, user_context, limit, now),
                        now, fault)} : Finish(cx, now)

get_avatar(user_id, avatar_id, now, fault) ==
    /\ CanFault("get", None, fault)
    /\ \E cx \in {Run(db, Enter("get", user_id, avatar_id, None, None, 0, now),
                        now, fault)} : Finish(cx, now)

\* create_avatar when uuid.uuid4() returns avatar_uuid
create_avatar_with(avatar_uuid, user_id, m, user_context, now, fault) ==
    /\ CanFault("create", m, fault)
    /\ \E cx \in {Run(db, Enter("create", user_id, avatar_uuid, m, user_context, 0, now),
                        now, fault)} : Finish(cx, now)

create_avatar(user_id, m, user_context, now, fault) ==
    create_avatar_with(next_uuid, user_id, m, user_context, now, fault)

update_avatar(user_id, avatar_id, m, user_context, now, fault) ==
    /\ CanFault("update", m, fault)
    /\ \E cx \in {Run(db, Enter("update", user_id, avatar_id, m, user_context, 0, now),
                        now, fault)} : Finish(cx, now)

delete_avatar(user_id, avatar_id, now, fault) ==
    /\ CanFault("delete", None, fault)
    /\ \E cx \in {Run(db, Enter("delete", user_id, avatar_id, None, None, 0, now),
                        now, fault)} : Finish(cx, now)

\* requests served one at a time, the store never failing, all within one
\* instant
Next ==
    \/ \E u \in Users, l \in Limits, c \in Contexts : list_avatars(u, l, c, clock, 0)
    \/ \E u \in Users, a \in Uuids : get_avatar(u, a, clock, 0)
    \/ /\ next_uuid <= MaxUuid
       /\ \E u \in Users, m \in Mutations, c \in Contexts :
                create_avatar(u, m, c, clock, 0)
    \/ \E u \in Users, a \in Uuids, m \in Mutations, c \in Contexts :
            update_avatar(u, a, m, c, clock, 0)
    \/ \E u \in Users, a \in Uuids : delete_avatar(u, a, clock, 0)

Spec == Init /\ [][Next]_vars

\* requests of a user who fills the slots, and of another user whose one
\* profile is older than all of the first user's
NextQuota ==
    \/ /\ next_uuid <= MaxQuotaUuid
       /\ \E u \in QuotaUsers, c \in Contexts :
            /\ u = "u2" => next_uuid = 1
            /\ create_avatar(u, QuotaMutation(next_uuid), c, clock, 0)
    \/ \E u \in QuotaUsers, a \in 1..MaxQuotaUuid, c \in Contexts :
         \E m \in {QuotaMutation(a), Renamed} : update_avatar(u, a, m, c, clock, 0)
    \/ \E u \in QuotaUsers, a \in 1..MaxQuotaUuid : delete_avatar(u, a, clock, 0)

SpecQuota == Init /\ [][NextQuota]_vars

\* requests served one at a time by a store that may fail at any statement
\* and at the commit
NextFault ==
    \/ \E u \in FaultUsers, l \in Limits, c \in Contexts, f \in 0..MaxFault :
            list_avatars(u, l, c, clock, f)
    \/ \E u \in FaultUsers, a \in Uuids, f \in 0..MaxFault : get_avatar(u, a, clock, f)
    \/ /\ next_uuid <= MaxUuid
       /\ \E u \in FaultUsers, m \in FaultMutations, c \in Contexts, f \in 0..MaxFault :
                create_avatar(u, m, c, clock, f)
    \/ \E u \in FaultUsers, a \in Uuids, m \in FaultMutations, c \in Contexts,
          f \in 0..MaxFault : update_avatar(u, a, m, c, clock, f)
    \/ \E u \in FaultUsers, a \in Uuids, f \in 0..MaxFault : delete_avatar(u, a, clock, f)

SpecFault == Init /\ [][NextFault]_vars

\* requests served one at a time, the store never failing, while time passes
NextTime ==
    \/ \E u \in Users, l \in Limits, c \in Contexts, now \in Nows :
            list_avatars(u, l, c, now, 0)
    \/ \E u \in Users, a \in Uuids, now \in Nows : get_avatar(u, a, now, 0)
    \/ /\ next_uuid <= MaxUuid
       /\ \E u \in Users, m \in FaultMutations, c \in Contexts, now \in Nows :
                create_avatar(u, m, c, now, 0)
    \/ \E u \in Users, a \in Uuids, m \in FaultMutations, c \in Contexts, now \in Nows :
            update_avatar(u, a, m, c, now, 0)
    \/ \E u \in Users, a \in Uuids, now \in Nows : delete_avatar(u, a, now, 0)

SpecTime == Init /\ [][NextTime]_vars

----------------------------------------------------------------------------
(* Overlapping requests.  Each handler holds one connection of the pool    *)
(* from its first statement to its commit or rollback; statements of       *)
(* different handlers interleave.  A statement sees what is committed when *)
(* it executes and its own transaction's writes (READ COMMITTED, the       *)
(* default of the connections the pool opens), and waits while another     *)
(* transaction in progress holds a row it writes or a key it inserts.      *)

Busy(c) == pool[c] # Idle

\* rows of table t that transactions in progress other than c's have
\* written: committed rows they have deleted or updated, and rows they have
\* inserted
HeldRows(c, t) ==
    UNION {pool[o].w.del[t] \cup pool[o].w.ins[t] : o \in {x \in Conns \ {c} : Busy(x)}}

\* a row of another transaction in progress has the key (user_id, name)
NameKeyHeld(c, id, user_id, name) ==
    \E r \in HeldRows(c, "avatars") :
        r.id # id /\ r.user_id = user_id /\ r.name = name

\* the statements wait as they do, and _find_available_slot waits while
\* another transaction in progress has inserted a header of the same user
WaitsForSlot(c) ==
    LET cx == pool[c]
        stmt == cx.prog[cx.pc]
        target == {r \in db.avatars : r.id = cx.avatar_id}
        table == CASE stmt \in {"del_basic", "ins_basic"} -> "basic"
                   [] stmt \in {"del_body", "ins_body"} -> "body"
                   [] stmt \in {"del_morphs", "ins_morphs"} -> "morphs"
                   [] OTHER -> "quick"
    IN  CASE stmt = "ensure_user" ->
                \E r \in HeldRows(c, "users") :
                    /\ r.id = cx.user_id
                    /\ \/ ~(cx.user_context = None \/ DOMAIN cx.user_context = {})
                       \/ UserRows(db, cx.user_id) = {}
          [] stmt = "find_slot" ->
                \E r \in HeldRows(c, "avatars") : r.user_id = cx.user_id
          [] stmt = "insert_avatar" ->
                NameKeyHeld(c, cx.avatar_id, cx.user_id, AvatarName(cx.m.name))
          [] stmt = "update_avatar" ->
                \/ target \cap HeldRows(c, "avatars") # {}
                \/ /\ target # {}
                   /\ \E r \in target :
                        NameKeyHeld(c, r.id, r.user_id, AvatarName(cx.m.name))
          [] stmt = "delete_avatar" ->
                target \cap HeldRows(c, "avatars") # {}
          [] stmt \in {"del_basic", "del_body", "del_morphs", "del_quick",
                       "ins_basic", "ins_body", "ins_morphs", "ins_quick"} ->
                \E r \in HeldRows(c, table) : r.avatar_id = cx.avatar_id
          [] stmt = "upsert_defs" ->
                \E r \in HeldRows(c, "defs") : r.id \in DOMAIN MorphMap(cx.m.morph_targets)
          [] OTHER -> FALSE

\* the next statement of connection c cannot execute yet
Waits(c) ==
    LET cx == pool[c]
        stmt == cx.prog[cx.pc]
        target == {r \in db.avatars : r.id = cx.avatar_id}
        table == CASE stmt \in {"del_basic", "ins_basic"} -> "basic"
                   [] stmt \in {"del_body", "ins_body"} -> "body"
                   [] stmt \in {"del_morphs", "ins_morphs"} -> "morphs"
                   [] OTHER -> "quick"
    IN  CASE stmt = "ensure_user" ->
                \E r \in HeldRows(c, "users") :
                    /\ r.id = cx.user_id
                    /\ \/ ~(cx.user_context = None \/ DOMAIN cx.user_context = {})
                       \/ UserRows(db, cx.user_id) = {}
          [] stmt = "insert_avatar" ->
                NameKeyHeld(c, cx.avatar_id, cx.user_id, AvatarName(cx.m.name))
          [] stmt = "update_avatar" ->
                \/ target \cap HeldRows(c, "avatars") # {}
                \/ /\ target # {}
                   /\ \E r \in target :
                        NameKeyHeld(c, r.id, r.user_id, AvatarName(cx.m.name))
          [] stmt = "delete_avatar" ->
                target \cap HeldRows(c, "avatars") # {}
          [] stmt \in {"del_basic", "del_body", "del_morphs", "del_quick",
                       "ins_basic", "ins_body", "ins_morphs", "ins_quick"} ->
                \E r \in HeldRows(c, table) : r.avatar_id = cx.avatar_id
          [] stmt = "upsert_defs" ->
                \E r \in HeldRows(c, "defs") : r.id \in DOMAIN MorphMap(cx.m.morph_targets)
          [] OTHER -> FALSE

\* a connection put back only after a commit, and otherwise left checked
\* out with no handler
PutconnAfterCommit(cx) ==
    IF cx.outcome = "ok" THEN Idle ELSE [outcome |-> "abandoned"]

\* finally: _pool.putconn(conn), whatever the handler has come to
putconn(cx) == Idle

\* a handler is called: uuid4() for a create, then _pool.getconn()
Call(c, op, user_id, avatar_id, m, user_context, limit) ==
    /\ ~Busy(c)
    /\ op = "create" => avatar_id = next_uuid
    /\ pool' = [pool EXCEPT ![c] = Enter(op, user_id, avatar_id, m, user_context,
                                          limit, clock)]
    /\ next_uuid' = IF op = "create" THEN next_uuid + 1 ELSE next_uuid
    /\ UNCHANGED <<db, clock, resp, fresh, req>>

\* the handler on connection c executes its next statement
Statement(c) ==
    /\ Busy(c)
    /\ pool[c].outcome = Running
    /\ pool[c].pc <= Len(pool[c].prog)
    /\ ~Waits(c)
    /\ pool' = [pool EXCEPT ![c] = Exec(db, pool[c], clock)]
    /\ UNCHANGED <<db, clock, next_uuid, resp, fresh, req>>

\* the handler on connection c leaves _connection: commit after its last
\* statement, rollback after an exception, _pool.putconn(conn)
Return(c) ==
    /\ Busy(c)
    /\ pool[c].outcome # Running \/ pool[c].pc > Len(pool[c].prog)
    /\ \E cx \in {IF pool[c].outcome = Running
                   THEN [pool[c] EXCEPT !.outcome = "ok"] ELSE pool[c]} :
            /\ db' = _connection(db, cx)
            /\ resp' = Response(cx)
            /\ pool' = [pool EXCEPT ![c] = putconn(cx)]
    /\ fresh' = None
    /\ UNCHANGED <<clock, next_uuid, req>>

\* the store raises at the next statement of the handler on connection c,
\* or at conn.commit() after its last statement
Fault(c) ==
    /\ Busy(c)
    /\ pool[c].outcome = Running
    /\ pool' = [pool EXCEPT ![c] = Raise(pool[c], "StorageFault")]
    /\ UNCHANGED <<db, clock, next_uuid, resp, fresh, req>>

\* mutations of overlapping requests
ConcMutations ==
    {Mutation(NameA, FALSE, FALSE, NoSatellites),
     Mutation(NameB, FALSE, FALSE, NoSatellites)}

NextConc ==
    \/ /\ next_uuid <= MaxUuid
       /\ \E c \in Conns, u \in Users, m \in ConcMutations, x \in Contexts :
                Call(c, "create", u, next_uuid, m, x, 0)
    \/ \E c \in Conns, u \in Users, a \in Uuids, m \in ConcMutations, x \in Contexts :
            Call(c, "update", u, a, m, x, 0)
    \/ \E c \in Conns, u \in Users, a \in Uuids : Call(c, "delete", u, a, None, None, 0)
    \/ \E c \in Conns : Statement(c)
    \/ \E c \in Conns : Return(c)

SpecConc == Init /\ [][NextConc]_vars

----------------------------------------------------------------------------
(* The routes: what a request with a body or with the avatar_id of its URL *)
(* comes to.  A route answers 400 before the repository opens a            *)
(* connection when _apply_payload aborts or when uuid.UUID raises          *)
(* ValueError; otherwise the handler of the repository runs.               *)

_LIST_LIMIT == 5

\* a rejection that comes after the user has been synchronised
RefusedAfterSync(op, user_id, avatar_id, payload, now, abort) ==
    /\ resp' = [op |-> op, user_id |-> user_id, avatar_id |-> 0, m |-> None,
                outcome |-> "Invalid", value |-> abort, rolled_back |-> {}]
    /\ req' = Request(op, user_id, avatar_id, payload, TRUE)
    /\ clock' = now
    /\ db' = View(db, _ensure_user(db, NoWrites, user_id, None, now))
    /\ UNCHANGED <<next_uuid, fresh, pool>>

\* abort(400), with the tables as they were: no connection was opened
Refused(op, user_id, avatar_id, payload, now, abort) ==
    /\ resp' = [op |-> op, user_id |-> user_id, avatar_id |-> 0, m |-> None,
                outcome |-> "Invalid", value |-> abort, rolled_back |-> {}]
    /\ req' = Request(op, user_id, avatar_id, payload, FALSE)
    /\ clock' = now
    /\ UNCHANGED <<db, next_uuid, fresh, pool>>

\* the handler of the repository has run for the request
Served(cx, now, request) == Complete(cx, now) /\ req' = request

InvalidIdentifier == Abort("avatarId", "is invalid", <<>>)

route_list_avatars(user_id, user_context, now, fault) ==
    /\ CanFault("list", None, fault)
    /\ \E cx \in {Run(db, Enter("list", user_id, 0, None, user_context, _LIST_LIMIT, now),
                        now, fault)} :
            Served(cx, now, Request("list", user_id, <<>>, None, TRUE))

route_create_avatar(user_id, payload, user_context, now, fault) ==
    \E m \in {ProfileMutation(payload)} :
        IF IsAbort(m) THEN Refused("create", user_id, <<>>, payload, now, m)
        ELSE /\ CanFault("create", m, fault)
             /\ \E cx \in {Run(db, Enter("create", user_id, next_uuid, m, user_context,
                                         0, now), now, fault)} :
                    Served(cx, now, Request("create", user_id, <<>>, payload, TRUE))

route_get_avatar(user_id, avatar_id, now, fault) ==
    \E avatar_uuid \in {UUID(avatar_id)} :
        IF avatar_uuid = ValueError
        THEN Refused("get", user_id, avatar_id, None, now, InvalidIdentifier)
        ELSE /\ CanFault("get", None, fault)
             /\ \E cx \in {Run(db, Enter("get", user_id, avatar_uuid, None, None, 0, now),
                               now, fault)} :
                    Served(cx, now, Request("get", user_id, avatar_id, None, TRUE))

route_update_avatar(user_id, avatar_id, payload, user_context, now, fault) ==
    \E m \in {ProfileMutation(payload)}, avatar_uuid \in {UUID(avatar_id)} :
        IF IsAbort(m) THEN Refused("update", user_id, avatar_id, payload, now, m)
        ELSE IF avatar_uuid = ValueError
        THEN Refused("update", user_id, avatar_id, payload, now, InvalidIdentifier)
        ELSE /\ CanFault("update", m, fault)
             /\ \E cx \in {Run(db, Enter("update", user_id, avatar_uuid, m, user_context,
                                         0, now), now, fault)} :
                    Served(cx, now, Request("update", user_id, avatar_id, payload, TRUE))

route_delete_avatar(user_id, avatar_id, now, fault) ==
    \E avatar_uuid \in {UUID(avatar_id)} :
        IF avatar_uuid = ValueError
        THEN Refused("delete", user_id, avatar_id, None, now, InvalidIdentifier)
        ELSE /\ CanFault("delete", None, fault)
             /\ \E cx \in {Run(db, Enter("delete", user_id, avatar_uuid, None, None, 0, now),
                               now, fault)} :
                    Served(cx, now, Request("delete", user_id, avatar_id, None, TRUE))

\* avatar ids as the URL carries them
Zeros(n) == [i \in 1..n |-> "0"]

\* str(uuid.UUID(int=n))
Canonical(n) ==
    Zeros(8) \o <<"-">> \o Zeros(4) \o <<"-">> \o Zeros(4) \o <<"-">> \o Zeros(4)
        \o <<"-">> \o Zeros(11) \o Digits(n)

\* uuid.UUID(int=n).hex
Compact(n) == Zeros(31) \o Digits(n)

\* thirty-two characters that are not thirty-two hexadecimal digits
Signed(n) == <<"+">> \o Zeros(30) \o Digits(n)
Underscored(n) == Zeros(30) \o <<"_">> \o Digits(n)

NotAnId == <<"n", "o", "t", "-", "a", "-", "u", "u", "i", "d">>

IdTexts == {Canonical(1), Compact(2), Signed(1), Underscored(2), NotAnId}

\* bodies of requests: accepted ones and rejected ones
PayloadPlain == [name |-> Str(NameA)]

PayloadFull ==
    [name |-> Str(NameB), gender |-> Str(<<" ", "M", "a", "l", "e">>), ageRange |-> Str(<<"2", "0", "-", "2", "9">>),
     source |-> Str(<<"W", "E", "B">>), quickMode |-> Bool(FALSE),
     basicMeasurements |-> [height |-> PyInt(1), creationMode |-> Str(<<"P", "r", "e", "s", "e", "t">>)],
     bodyMeasurements |-> [chest |-> Float(2)],
     morphTargets |-> Mapping(<<KeyValue(<<"b">>, PyInt(2)), KeyValue(<<" ", "a">>, [backendKey |-> Str(<<"k">>)])>>),
     quickModeSettings |-> Mapping(<<KeyValue(BodyShapeKey, Str(<<"P", "e", "a", "r", " ", "S", "h", "a", "p", "e">>))>>)]

PayloadBadGender == [name |-> Str(NameA), gender |-> Str(<<"r", "o", "b", "o", "t">>)]

PayloadBadSettings ==
    [name |-> Str(NameB),
     quickModeSettings |-> Mapping(<<KeyValue(<<"u", "p", "d", "a", "t", "e", "d", "A", "t">>, Str(<<"x">>))>>)]

PayloadConflict ==
    [name |-> Str(NameA), creationMode |-> Str(<<"s", "c", "a", "n">>),
     basicMeasurements |-> [creationMode |-> Str(<<"m", "a", "n", "u", "a", "l">>)]]

RoutePayloads ==
    {PayloadPlain, PayloadFull, PayloadBadGender, PayloadBadSettings, PayloadConflict}

RouteUsers == {"u1"}

\* requests through the routes, served one at a time, the store never
\* failing

NextRoutes ==
    \/ \E u \in RouteUsers, c \in Contexts : route_list_avatars(u, c, clock, 0)
    \/ \E u \in RouteUsers, a \in IdTexts : route_get_avatar(u, a, clock, 0)
    \/ /\ next_uuid <= MaxUuid
       /\ \E u \in RouteUsers, p \in RoutePayloads, c \in Contexts :
            route_create_avatar(u, p, c, clock, 0)
    \/ \E u \in RouteUsers, a \in IdTexts, p \in RoutePayloads, c \in Contexts :
            route_update_avatar(u, a, p, c, clock, 0)
    \/ \E u \in RouteUsers, a \in IdTexts : route_delete_avatar(u, a, clock, 0)

SpecRoutes == Init /\ [][NextRoutes]_vars

----------------------------------------------------------------------------
(* What the claims are stated with: read off the committed tables and the  *)
(* response, not through the operators of the repository.                  *)

HeadersOf(d, user_id) == {r \in d.avatars : r.user_id = user_id}

OwnedBy(d, avatar_id, user_id) ==
    \E r \in d.avatars : r.id = avatar_id /\ r.user_id = user_id

Satellites == {"basic", "body", "morphs", "quick"}

\* the rows of profile avatar_id: its header and its four satellite sets
ProfileRows(d, avatar_id) ==
    [avatars |-> {r \in d.avatars : r.id = avatar_id},
     basic |-> {r \in d.basic : r.avatar_id = avatar_id},
     body |-> {r \in d.body : r.avatar_id = avatar_id},
     morphs |-> {r \in d.morphs : r.avatar_id = avatar_id},
     quick |-> {r \in d.quick : r.avatar_id = avatar_id}]

\* the name a profile written with this name is stored under
StoredName(name) ==
    CASE name = PaddedA -> NameA
      [] name = Blank -> UntitledAvatar
      [] OTHER -> name

\* the header fields a mutation specifies
HeaderOf(m) ==
    [name |-> StoredName(m.name), gender |-> m.gender, age_range |-> m.age_range,
     creation_mode |-> m.creation_mode, source |-> m.source,
     quick_mode |-> m.quick_mode, created_by_session |-> m.created_by_session]

HeaderFieldsOf(r) ==
    [name |-> r.name, gender |-> r.gender, age_range |-> r.age_range,
     creation_mode |-> r.creation_mode, source |-> r.source,
     quick_mode |-> r.quick_mode, created_by_session |-> r.created_by_session]

\* the satellite sets a mutation specifies, without the server's timestamps
MeasurementsOf(section) == {<<k, section[k]>> : k \in DOMAIN section}

MorphsOf(m) ==
    {[morph_id |-> m.morph_targets[i].id.v,
      backend_key |-> Get(m.morph_targets[i], "backendKey"),
      slider_value |-> Get(m.morph_targets[i], "sliderValue"),
      unreal_value |-> Get(m.morph_targets[i], "unrealValue")] :
        i \in 1..Len(m.morph_targets)}

QuickOf(m) ==
    IF m.quick_mode_settings = None THEN {}
    ELSE {[body_shape |-> Get(m.quick_mode_settings, "bodyShape"),
           athletic_level |-> Get(m.quick_mode_settings, "athleticLevel"),
           measurements |-> IF "measurements" \in DOMAIN m.quick_mode_settings
                            THEN m.quick_mode_settings.measurements ELSE EmptyDict]}

\* the stored satellite sets of a profile, without the server's timestamps
StoredSatellites(d, avatar_id) ==
    [basic |-> {<<r.measurement_key, r.value>> : r \in ProfileRows(d, avatar_id).basic},
     body |-> {<<r.measurement_key, r.value>> : r \in ProfileRows(d, avatar_id).body},
     morphs |-> {[morph_id |-> r.morph_id, backend_key |-> r.backend_key,
                  slider_value |-> r.slider_value, unreal_value |-> r.unreal_value] :
                    r \in ProfileRows(d, avatar_id).morphs},
     quick |-> {[body_shape |-> r.body_shape, athletic_level |-> r.athletic_level,
                 measurements |-> r.measurements] :
                    r \in ProfileRows(d, avatar_id).quick}]

SatellitesOf(m) ==
    [basic |-> MeasurementsOf(m.basic_measurements),
     body |-> MeasurementsOf(m.body_measurements),
     morphs |-> MorphsOf(m),
     quick |-> QuickOf(m)]

Succeeded(op) == resp.op = op /\ resp.outcome = "ok"

----------------------------------------------------------------------------
(* C1: after any sequence of Create, Update and Delete operations issued   *)
(* one at a time, each user owns at most five profiles, each profile has a *)
(* slot number between 1 and 5, and no two profiles of one user share a    *)
(* slot number.                                                            *)
C1_QuotaAndSlots ==
    \A u \in Users :
        /\ Cardinality(HeadersOf(db, u)) <= 5
        /\ \A r \in HeadersOf(db, u) : r.slot \in 1..5
        /\ \A r, o \in HeadersOf(db, u) : r.slot = o.slot => r.id = o.id

\* an Update has succeeded for a user who owns five profiles, one of them
\* created after a Delete had made room for it
C1_Witness ==
    /\ Succeeded("update")
    /\ Cardinality(HeadersOf(db, resp.user_id)) = 5
    /\ \E r \in HeadersOf(db, resp.user_id) : r.id > 5

----------------------------------------------------------------------------
(* C2: whenever Create, Update, Delete or List ends in a failure of any    *)
(* kind, every table is exactly as it was before the operation began; and  *)
(* the tables never hold a header with only part of its satellite rows, or *)
(* satellite rows without a header: every stored profile is wholly what    *)
(* one mutation specifies.                                                 *)
WholeProfiles ==
    /\ \A t \in Satellites : \A r \in db[t] : \E h \in db.avatars : h.id = r.avatar_id
    /\ \A h \in db.avatars : \E m \in FaultMutations :
            /\ HeaderFieldsOf(h) = HeaderOf(m)
            /\ StoredSatellites(db, h.id) = SatellitesOf(m)

C2_FailureChangesNothing ==
    /\ []WholeProfiles
    /\ [][(resp'.op \in {"create", "update", "delete", "list"} /\ resp'.outcome # "ok")
          => db' = db]_vars

\* an Update has failed after it had rewritten the header and part of the
\* satellite rows
C2_Witness ==
    /\ resp.op = "update"
    /\ resp.outcome = "StorageFault"
    /\ {"avatars", "basic", "morphs"} \subseteq resp.rolled_back
    /\ "quick" \notin resp.rolled_back
    /\ db.quick # {}

----------------------------------------------------------------------------
(* C3: a Create by a user who owns five profiles ends in QuotaExceeded and *)
(* leaves every table as it was.                                           *)
C3_CreateAtQuotaFails ==
    [][(/\ resp'.op = "create"
        /\ Cardinality(HeadersOf(db, resp'.user_id)) = 5)
       => (/\ resp'.outcome = "QuotaExceeded"
           /\ resp'.value = None
           /\ db' = db)]_vars

\* a Create by a user who owns five profiles has ended in QuotaExceeded
C3_Witness ==
    /\ resp.op = "create"
    /\ resp.outcome = "QuotaExceeded"
    /\ Cardinality(HeadersOf(db, resp.user_id)) = 5

----------------------------------------------------------------------------
(* C4: a successful Create adds one profile, in the smallest slot of 1..5  *)
(* that no profile of the caller had when it began; so a Create that       *)
(* follows a Delete takes the freed slot when that is the smallest free    *)
(* one.                                                                    *)
C4_SmallestFreeSlot ==
    [][(resp'.op = "create" /\ resp'.outcome = "ok")
       => \E r \in db'.avatars :
            /\ db'.avatars = db.avatars \cup {r}
            /\ r \notin db.avatars
            /\ r.id = resp'.avatar_id
            /\ r.user_id = resp'.user_id
            /\ r.slot \in 1..5
            /\ \A o \in HeadersOf(db, r.user_id) : o.slot # r.slot
            /\ \A s \in 1..(r.slot - 1) :
                    \E o \in HeadersOf(db, r.user_id) : o.slot = s]_vars

\* a Create has succeeded and its profile has a slot below that of an older
\* profile of the same user and above that of another: the slot had been
\* freed by a Delete
C4_Witness ==
    /\ Succeeded("create")
    /\ \E r, o, p \in HeadersOf(db, resp.user_id) :
            /\ r.id = resp.avatar_id
            /\ o.id < r.id /\ r.slot < o.slot
            /\ p.slot < r.slot

----------------------------------------------------------------------------
(* C5: in every reachable state, also while transactions overlap, no user  *)
(* has two profiles with the same stored name.  The header write of a      *)
(* Create or an Update raises DuplicateName exactly when another profile   *)
(* of the same user has the name it would store (a profile of another user *)
(* with that name does not count); the operation then returns              *)
(* DuplicateName and leaves every table as it was.                         *)
UniqueNames ==
    \A r, o \in db.avatars :
        (r.user_id = o.user_id /\ r.name = o.name) => r.id = o.id

\* another committed profile of the user has the name the handler on
\* connection c would store
NameTaken(c) ==
    \E r \in db.avatars :
        /\ r.id # pool[c].avatar_id
        /\ r.user_id = pool[c].user_id
        /\ r.name = StoredName(pool[c].m.name)

C5_UniqueNamePerUser ==
    /\ []UniqueNames
    /\ [][\A c \in Conns :
            /\ (/\ Busy(c) /\ pool[c].outcome = Running
                /\ pool[c].pc <= Len(pool[c].prog)
                /\ pool[c].prog[pool[c].pc] \in {"insert_avatar", "update_avatar"}
                /\ pool'[c] # pool[c])
               => (pool'[c].outcome = "DuplicateName"
                    <=> (/\ NameTaken(c)
                         /\ pool[c].op = "update"
                            => \E r \in db.avatars : r.id = pool[c].avatar_id))
            /\ (Busy(c) /\ pool[c].outcome = "DuplicateName" /\ ~Busy(c)')
               => (/\ resp'.outcome = "DuplicateName"
                   /\ resp'.op = pool[c].op
                   /\ db' = db)
            /\ (Busy(c) /\ ~Busy(c)' /\ resp'.outcome = "DuplicateName")
               => pool[c].outcome = "DuplicateName"]_vars

\* a Create has raised DuplicateName on a profile that a Create called
\* after it has committed meanwhile
C5_Witness ==
    \E c \in Conns :
        /\ Busy(c)
        /\ pool[c].op = "create"
        /\ pool[c].outcome = "DuplicateName"
        /\ \E r \in db.avatars :
                /\ r.id > pool[c].avatar_id
                /\ r.user_id = pool[c].user_id
                /\ r.name = StoredName(pool[c].m.name)

----------------------------------------------------------------------------
(* C6: Get, Update and Delete by a user of an avatar id that user does not *)
(* own end in NotFound and return nothing, whether the id belongs to       *)
(* another user or to nobody, and leave every table as it was.             *)
C6_NotOwnedIsNotFound ==
    [][(/\ resp'.op \in {"get", "update", "delete"}
        /\ ~OwnedBy(db, resp'.avatar_id, resp'.user_id))
       => (/\ resp'.outcome = "NotFound"
           /\ resp'.value = None
           /\ db' = db)]_vars

\* an Update by a user of a profile that another user owns has ended
C6_Witness ==
    /\ resp.op = "update"
    /\ resp.outcome = "NotFound"
    /\ \E r \in db.avatars : r.id = resp.avatar_id /\ r.user_id # resp.user_id

----------------------------------------------------------------------------
(* C8: after a successful Update the profile's header fields and its four  *)
(* satellite sets are exactly those of the new mutation: nothing of the    *)
(* previous state survives, and what the mutation omits is null or empty.  *)
C8_UpdateReplaces ==
    Succeeded("update") =>
        /\ \E r \in db.avatars : r.id = resp.avatar_id
        /\ \A r \in db.avatars :
              r.id = resp.avatar_id => HeaderFieldsOf(r) = HeaderOf(resp.m)
        /\ StoredSatellites(db, resp.avatar_id) = SatellitesOf(resp.m)

\* an Update with no satellite data and no header data has succeeded on the
\* only profile ever created, which had morph targets before
C8_Witness ==
    /\ Succeeded("update")
    /\ next_uuid = 2
    /\ resp.m = Mutation(NameA, FALSE, FALSE, NoSatellites)
    /\ db.defs # {}

----------------------------------------------------------------------------
(* C7: Create followed by Get of the returned id by the same user.         *)

\* a Get has returned the profile of the Create that came just before it
GetAfterCreate ==
    /\ fresh # None
    /\ Succeeded("get")
    /\ resp.avatar_id = fresh.id
    /\ resp.user_id = fresh.user_id

HeaderRoundTrip(p, m) ==
    /\ p.name = StoredName(m.name)
    /\ p.gender = m.gender
    /\ p.ageRange = m.age_range
    /\ p.creationMode = m.creation_mode
    /\ p.source = m.source
    /\ p.quickMode = m.quick_mode
    /\ p.createdBySession = m.created_by_session
    /\ p.basicMeasurements = m.basic_measurements
    /\ p.bodyMeasurements = m.body_measurements

\* the claim as stated: every listed field of the returned profile equals
\* the mutation's normalized field
C7_RoundTripExact ==
    GetAfterCreate =>
        /\ HeaderRoundTrip(resp.value, fresh.m)
        /\ resp.value.morphTargets = fresh.m.morph_targets
        /\ resp.value.quickModeSettings = fresh.m.quick_mode_settings

\* the backend key the shared definition of a morph id holds, None without one
DefinitionKey(d, morph_id) ==
    IF \E r \in d.defs : r.id = morph_id /\ r.backend_key # None
    THEN (CHOOSE r \in d.defs : r.id = morph_id /\ r.backend_key # None).backend_key
    ELSE None

\* a returned morph target against the mutation's: the same id and values,
\* a server-set updatedAt, and the mutation's backend key or, when it gives
\* none, the shared definition's
MorphRoundTrip(d, got, sent) ==
    /\ got.id = sent.id
    /\ Get(got, "sliderValue") = Get(sent, "sliderValue")
    /\ Get(got, "value") = Get(sent, "value")
    /\ Get(got, "unrealValue") = Get(sent, "unrealValue")
    /\ "updatedAt" \in DOMAIN got
    /\ Get(got, "backendKey") = IF "backendKey" \in DOMAIN sent
                                THEN sent.backendKey
                                ELSE DefinitionKey(d, sent.id.v)

\* returned settings against the mutation's: null for null, otherwise the
\* three fields (an absent one null or empty) and a server-set updatedAt
QuickRoundTrip(got, sent) ==
    IF sent = None THEN got = None
    ELSE /\ got # None
         /\ DOMAIN got = {"bodyShape", "athleticLevel", "measurements", "updatedAt"}
         /\ got.bodyShape = Get(sent, "bodyShape")
         /\ got.athleticLevel = Get(sent, "athleticLevel")
         /\ got.measurements = IF "measurements" \in DOMAIN sent
                               THEN sent.measurements ELSE EmptyDict

(* C7, amended: the header fields and the two measurement mappings are     *)
(* equal to the mutation's; the morph targets are the mutation's, in its   *)
(* order, each with a server-set updatedAt and, when the mutation gave no  *)
(* backend key, the shared definition's; the settings are null when the    *)
(* mutation's are, and otherwise its three fields with an updatedAt.       *)
C7_RoundTrip ==
    GetAfterCreate =>
        /\ HeaderRoundTrip(resp.value, fresh.m)
        /\ Len(resp.value.morphTargets) = Len(fresh.m.morph_targets)
        /\ \A i \in 1..Len(fresh.m.morph_targets) :
              MorphRoundTrip(db, resp.value.morphTargets[i], fresh.m.morph_targets[i])
        /\ QuickRoundTrip(resp.value.quickModeSettings, fresh.m.quick_mode_settings)

\* the Get returned a morph target with a backend key the mutation did not give
C7_Witness ==
    /\ GetAfterCreate
    /\ \E i \in 1..Len(fresh.m.morph_targets) :
          /\ "backendKey" \notin DOMAIN fresh.m.morph_targets[i]
          /\ "backendKey" \in DOMAIN resp.value.morphTargets[i]
    /\ fresh.m.name = Blank

----------------------------------------------------------------------------
(* C9: an Update, whatever its outcome, leaves the id, the owner, the slot *)
(* and the creation time of its profile as they were, and leaves the rows  *)
(* of every other profile as they were.                                    *)
C9_UpdateKeepsIdentity ==
    [][resp'.op = "update"
       => /\ \A r \in db.avatars :
                \E o \in db'.avatars :
                    /\ o.id = r.id /\ o.user_id = r.user_id
                    /\ o.slot = r.slot /\ o.created_at = r.created_at
          /\ Cardinality(db'.avatars) = Cardinality(db.avatars)
          /\ \A a \in Uuids \ {resp'.avatar_id} :
                ProfileRows(db', a) = ProfileRows(db, a)
          /\ resp'.outcome = "ok"
             => \E r \in db.avatars :
                    /\ r.id = resp'.avatar_id
                    /\ resp'.value.id = r.id
                    /\ resp'.value.userId = r.user_id
                    /\ resp'.value.createdAt = _isoformat(r.created_at)]_vars

\* an Update has succeeded at a later instant than its profile was created,
\* while another profile with satellite rows exists
C9_Witness ==
    /\ Succeeded("update")
    /\ \E r, o \in db.avatars :
            /\ r.id = resp.avatar_id
            /\ r.updated_at # r.created_at
            /\ o.id # r.id
            /\ ProfileRows(db, o.id).morphs # {}

----------------------------------------------------------------------------
(* C10: a successful Delete removes the profile's header and all of its    *)
(* satellite rows, the satellite rows before the header and all in one     *)
(* transaction; the rows of every other profile, the users and the shared  *)
(* morph definitions stay as they were.                                    *)
C10_DeleteRemovesProfile ==
    [][resp'.op = "delete"
       => /\ resp'.outcome = "ok"
             => /\ ProfileRows(db', resp'.avatar_id) = ProfileRows(EmptyTables, 0)
                /\ \A a \in Uuids \ {resp'.avatar_id} :
                        ProfileRows(db', a) = ProfileRows(db, a)
                /\ db'.defs = db.defs
                /\ db'.users = db.users
          /\ resp'.outcome # "ok" => db' = db
          /\ "avatars" \in resp'.rolled_back
             => \A t \in Satellites :
                    ProfileRows(db, resp'.avatar_id)[t] # {} => t \in resp'.rolled_back]_vars

\* a Delete has removed a profile that had satellite rows, another profile
\* with satellite rows and the morph definitions are still there
C10_Witness ==
    /\ Succeeded("delete")
    /\ db.avatars # {} /\ db.morphs # {} /\ db.quick # {}
    /\ db.defs # {}
    /\ ~\E r \in db.avatars : r.id = resp.avatar_id

----------------------------------------------------------------------------
(* C11: Get, Update and Delete called with an id string that is not a      *)
(* well-formed UUID end in Invalid (HTTP 400), not in NotFound or another  *)
(* outcome, without a connection being opened and with every table as it   *)
(* was.                                                                    *)

IsHexChar(ch) ==
    ch \in {"0", "1", "2", "3", "4", "5", "6", "7", "8", "9",
            "a", "b", "c", "d", "e", "f", "A", "B", "C", "D", "E", "F"}

\* the textual forms of a UUID: thirty-two hexadecimal digits, bare or in
\* groups of 8-4-4-4-12, optionally in braces or after urn:uuid:
WellFormedUuid(text) ==
    LET urn == <<"u", "r", "n", ":", "u", "u", "i", "d", ":">>
        bare == IF StartsWith(text, urn) THEN SubSeq(text, Len(urn) + 1, Len(text))
                ELSE text
        body == IF Len(bare) >= 2 /\ Head(bare) = "{" /\ bare[Len(bare)] = "}"
                THEN SubSeq(bare, 2, Len(bare) - 1) ELSE bare
    IN  \/ Len(body) = 32 /\ \A i \in 1..32 : IsHexChar(body[i])
        \/ /\ Len(body) = 36
           /\ \A i \in 1..36 : IF i \in {9, 14, 19, 24} THEN body[i] = "-"
                                ELSE IsHexChar(body[i])

\* C11, as stated: a Get, Update or Delete whose id string is not a
\* well-formed UUID ends in Invalid, opens no connection and changes no table
C11_MalformedIdIsInvalid ==
    [][(req'.op \in {"get", "update", "delete"} /\ ~WellFormedUuid(req'.avatar_id))
        => (resp'.outcome = "Invalid" /\ ~req'.began /\ db' = db)]_vars

----------------------------------------------------------------------------
(* Listing with several limits, of profiles whose ids are not in the order *)
(* of their creation (uuid4 values are random).                            *)

\* avatar ids a behaviour that lists may store
MaxListUuid == 3

ListLimits == {0, 1, 2, _LIST_LIMIT}

NextList ==
    \/ /\ next_uuid <= MaxListUuid
       /\ \E a \in 1..MaxListUuid, u \in Users, c \in Contexts, now \in Nows :
            /\ ~\E r \in db.avatars : r.id = a
            /\ create_avatar_with(a, u, QuotaMutation(a), c, now, 0)
    \/ \E u \in Users, l \in ListLimits, c \in Contexts, now \in Nows :
            list_avatars(u, l, c, now, 0)

SpecList == Init /\ [][NextList]_vars

----------------------------------------------------------------------------
(* C12: List(user, limit) returns the profiles of the user in ascending    *)
(* order of (created_at, id), cut to the first limit of them; total is the *)
(* number of profiles the user owns, count the number of items returned,   *)
(* and count = min(limit, total).                                          *)

\* header r comes before header o in the order of (created_at, id)
Before(r, o) ==
    \/ r.created_at.v < o.created_at.v
    \/ r.created_at.v = o.created_at.v /\ r.id < o.id

\* C12: a successful List returns count = min(limit, total) profiles of the
\* caller, in ascending order of (created_at, id), each as the store has it,
\* and every profile it leaves out comes after all those it returns; total
\* is the number of the caller's profiles
C12_ListOrderedTruncated ==
    (resp.op = "list" /\ resp.outcome = "ok") =>
        LET v == resp.value
            mine == {r \in db.avatars : r.user_id = resp.user_id}
            row(i) == CHOOSE r \in db.avatars : r.id = v.items[i].id
            shown == {v.items[i].id : i \in 1..Len(v.items)}
        IN  /\ v.total = Cardinality(mine)
            /\ v.count = Len(v.items)
            /\ v.count = IF v.limit < v.total THEN v.limit ELSE v.total
            /\ \A i \in 1..Len(v.items) :
                    /\ v.items[i].id \in {r.id : r \in mine}
                    /\ v.items[i].name = row(i).name
                    /\ v.items[i].userId = resp.user_id
            /\ \A i, j \in 1..Len(v.items) : i < j => Before(row(i), row(j))
            /\ \A r \in mine : r.id \notin shown =>
                    \A i \in 1..Len(v.items) : Before(row(i), r)

\* a list cut to one of the caller's two profiles, the one returned having
\* the greater id, while another user has a profile too
C12_Witness ==
    /\ resp.op = "list" /\ resp.outcome = "ok"
    /\ resp.value.limit = 1 /\ resp.value.total = 2 /\ resp.value.count = 1
    /\ \E r \in db.avatars : r.user_id = resp.user_id /\ r.id < resp.value.items[1].id
    /\ \E r \in db.avatars : r.user_id # resp.user_id

----------------------------------------------------------------------------
(* C13: a payload the normalizer rejects is rejected before any operation  *)
(* of the store: no connection is opened and no transaction begun, the     *)
(* user is not synchronised, and every table stays as it was.              *)

\* C13: a Create or an Update whose payload _apply_payload aborts on ends
\* in Invalid with no connection opened, no row of any table (the users
\* table included) changed, and no avatar id used up
C13_RejectedBeforeStore ==
    [][(req'.op \in {"create", "update"} /\ IsAbort(ProfileMutation(req'.payload)))
        => /\ resp'.outcome = "Invalid" /\ resp'.value = ProfileMutation(req'.payload)
           /\ ~req'.began
           /\ db' = db /\ pool' = pool /\ next_uuid' = next_uuid]_vars

\* a rejected Create of a user the store has never seen
C13_Witness ==
    /\ req.op = "create" /\ IsAbort(ProfileMutation(req.payload))
    /\ resp.op = "create" /\ resp.outcome = "Invalid" /\ resp.value.field = "gender"
    /\ db.users = {}

----------------------------------------------------------------------------
(* The normalizer on its own: _apply_payload up to the call of the         *)
(* repository, applied to one body, and applied again to a body made of    *)
(* what it returned; and the body sent to Create.                          *)

\* a payload with one field
Field(key, value) == Item(TRUE, key, value)

\* the characters of the keys of quickModeSettings.measurements, in order
MeasurementItems(measurements) ==
    LET keys == SortedStrs({Chars(k) : k \in DOMAIN measurements})
    IN  [i \in 1..Len(keys) |-> KeyValue(keys[i], measurements[Key(keys[i])])]

\* the normalized settings as a JSON object
SettingsPayload(settings) ==
    IF IsNull(settings) THEN None
    ELSE Mapping(
        (IF "bodyShape" \in DOMAIN settings
         THEN <<KeyValue(BodyShapeKey, settings["bodyShape"])>> ELSE <<>>)
        \o (IF "athleticLevel" \in DOMAIN settings
            THEN <<KeyValue(AthleticLevelKey, settings["athleticLevel"])>> ELSE <<>>)
        \o (IF "measurements" \in DOMAIN settings
            THEN <<KeyValue(MeasurementsKey,
                            Mapping(MeasurementItems(settings["measurements"])))>>
            ELSE <<>>))

\* the body whose fields are the keyword arguments _apply_payload passes on
AsPayload(m) ==
    [name |-> Str(m.name), gender |-> m.gender, ageRange |-> m.age_range,
     creationMode |-> m.creation_mode, source |-> m.source,
     quickMode |-> Bool(m.quick_mode), createdBySession |-> m.created_by_session,
     basicMeasurements |-> m.basic_measurements,
     bodyMeasurements |-> m.body_measurements,
     morphTargets |-> List(m.morph_targets),
     quickModeSettings |-> SettingsPayload(m.quick_mode_settings)]

\* values of an enum field
EnumTexts ==
    {<<"F", "e", "m", "a", "l", "e">>, <<" ", "m", "a", "l", "e", " ">>, <<"N", "O", "N", "_", "B", "I", "N", "A", "R", "Y">>, <<"n", "o", "n", " ", "b", "i", "n", "a", "r", "y">>, <<"T", "e", "e", "n">>, <<"2", "0", "-", "2", "9">>,
     <<" ", "9", "0", "-", "9", "9", " ">>, <<"1", "0", "-", "1", "9">>, <<"M", "a", "n", "u", "a", "l">>, <<"S", "C", "A", "N", " ">>, <<"w", "e", "b">>, <<"A", "P", "I">>, <<>>, <<" ", " ">>,
     <<"r", "o", "b", "o", "t">>}

EnumValues == {Str(s) : s \in EnumTexts} \cup {None, PyInt(1), Bool(TRUE)}

EnumFields == {"gender", "ageRange", "creationMode", "source"}

EnumPayloads == {Field(f, v) : f \in EnumFields, v \in EnumValues}

\* creationMode at the top level and inside the two measurement sections
Absent == [t |-> "absent"]

Optional(key, value) == Item(value # Absent, key, value)

CreationModePayloads ==
    {With(With(Optional("creationMode", top),
               Field("basicMeasurements",
                     With([height |-> PyInt(1)], Optional("creationMode", basic)))),
          Field("bodyMeasurements",
                With([chest |-> Float(2)], Optional("creationMode", body)))) :
        top \in {Absent, Str(<<"s", "c", "a", "n">>), Str(<<"M", "a", "n", "u", "a", "l">>)},
        basic \in {Absent, None, Str(<<" ", "P", "r", "e", "s", "e", "t">>), Str(<<"s", "c", "a", "n">>), Str(<<"b", "o", "g", "u", "s">>), Str(<<" ">>)},
        body \in {Absent, Str(<<"m", "a", "n", "u", "a", "l">>), Str(<<"S", "C", "A", "N">>)}}

\* quickMode and quickModeSettings
\* the key of the time a client says it changed the settings
UpdatedAtKey == <<"u", "p", "d", "a", "t", "e", "d", "A", "t">>

QuickModeValues == {Absent, None, Bool(TRUE), Bool(FALSE), PyInt(1), Str(<<"t", "r", "u", "e">>)}

QuickModeSettingsValues ==
    {Absent, None, Mapping(<<>>), Str(<<"x">>),
     Mapping(<<KeyValue(BodyShapeKey, Str(<<"P", "e", "a", "r", " ", "S", "h", "a", "p", "e">>))>>),
     Mapping(<<KeyValue(AthleticLevelKey, Str(<<" ">>))>>),
     Mapping(<<KeyValue(BodyShapeKey, PyInt(1))>>),
     Mapping(<<KeyValue(MeasurementsKey,
                 Mapping(<<KeyValue(<<" ", "w", "a", "i", "s", "t", " ">>, PyInt(1)), KeyValue(<<"h", "i", "p", "s">>, Float(2))>>))>>),
     Mapping(<<KeyValue(MeasurementsKey, Mapping(<<KeyValue(<<"w", "a", "i", "s", "t">>, Str(<<"x">>))>>))>>),
     Mapping(<<KeyValue(MeasurementsKey, Mapping(<<KeyValue(<<" ">>, PyInt(1))>>))>>),
     Mapping(<<KeyValue(UpdatedAtKey, Str(<<"x">>))>>),
     Mapping(<<KeyValue(BodyShapeKey, Str(<<"p", "e", "a", "r">>)),
               KeyValue(UpdatedAtKey, _isoformat(Datetime(1)))>>),
     Mapping(<<KeyValue(<<"z", "e", "t", "a">>, PyInt(1)), KeyValue(BodyShapeKey, Str(<<"a">>)),
               KeyValue(<<"a", "l", "p", "h", "a">>, None)>>)}

QuickPayloads ==
    {With(Optional("quickMode", flag), Optional("quickModeSettings", settings)) :
        flag \in QuickModeValues, settings \in QuickModeSettingsValues}

\* morphTargets: mappings, lists of objects, lists of pairs
MorphTargetsValues ==
    {None, Mapping(<<>>), List(<<>>),
     Mapping(<<KeyValue(<<"b">>, PyInt(2)),
               KeyValue(<<" ", "a">>, [backendKey |-> Str(<<" ", "k", " ">>), sliderValue |-> PyInt(1)])>>),
     Mapping(<<KeyValue(<<"a">>, PyInt(1)), KeyValue(<<"a", " ">>, PyInt(2))>>),
     Mapping(<<KeyValue(<<"b">>, [value |-> Float(3), unrealValue |-> PyInt(1)]),
               KeyValue(<<"a">>, None), KeyValue(<<"c">>, Bool(TRUE))>>),
     List(<<[id |-> Str(<<"b">>), value |-> PyInt(3)],
            [id |-> Str(<<"a">>), sliderValue |-> PyInt(1), unrealValue |-> PyInt(2)]>>),
     List(<<List(<<Str(<<"b">>), PyInt(2)>>), List(<<Str(<<"a">>), PyInt(1)>>)>>),
     List(<<[id |-> Str(<<"a">>), value |-> PyInt(1)], [id |-> Str(<<"b">>), value |-> PyInt(2)],
            [id |-> Str(<<" ", "a">>), value |-> PyInt(3)]>>),
     List(<<[id |-> Str(<<"a">>), backendKey |-> Str(<<"k">>)], List(<<Str(<<"a">>), PyInt(5)>>)>>),
     List(<<[id |-> PyInt(5), value |-> PyInt(1)]>>),
     Str(<<"x">>), PyInt(1),
     List(<<PyInt(1)>>),
     List(<<[value |-> PyInt(1)]>>),
     List(<<List(<<Str(<<"a">>), PyInt(1), PyInt(2)>>)>>),
     Mapping(<<KeyValue(<<" ">>, PyInt(1))>>),
     Mapping(<<KeyValue(<<"a">>, Str(<<"x">>))>>),
     Mapping(<<KeyValue(<<"a">>, [unrealValue |-> Str(<<"x">>)])>>)}

MorphPayloads == {Field("morphTargets", v) : v \in MorphTargetsValues}

\* the remaining fields
OtherPayloads ==
    {None, List(<<>>), EmptyDict,
     Field("name", PyInt(1)), Field("name", Str(PaddedA)), Field("name", None),
     Field("createdBySession", Str(<<" ", "s", " ">>)), Field("createdBySession", PyInt(1)),
     Field("createdBySession", Str(Blank)),
     Field("basicMeasurements", Str(<<"x">>)), Field("bodyMeasurements", List(<<>>)),
     Field("basicMeasurements", [height |-> Str(<<"x">>)]),
     Field("bodyMeasurements", [chest |-> None]),
     Field("basicMeasurements", [height |-> Bool(TRUE)])}

NormPayloads ==
    EnumPayloads \cup CreationModePayloads \cup QuickPayloads \cup MorphPayloads
        \cup OtherPayloads \cup RoutePayloads

\* a body has arrived
InitNorm ==
    /\ db = EmptyTables
    /\ clock = 0
    /\ next_uuid = 1
    /\ resp = NoResponse
    /\ fresh = None
    /\ pool = [c \in Conns |-> Idle]
    /\ req \in {Request("normalize", "u1", <<>>, p, FALSE) : p \in NormPayloads}

\* what _apply_payload makes of the body payload
Normalized(op, m, first) ==
    [op |-> op, user_id |-> req.user_id, avatar_id |-> 0,
     m |-> IF IsAbort(m) THEN None ELSE m,
     outcome |-> IF IsAbort(m) THEN "Invalid" ELSE "ok",
     value |-> IF IsAbort(m) THEN m ELSE first, rolled_back |-> {}]

\* _apply_payload normalizes the body
Normalize ==
    /\ resp = NoResponse
    /\ resp' = Normalized("normalize", ProfileMutation(req.payload), None)
    /\ UNCHANGED <<db, clock, next_uuid, fresh, pool, req>>

\* what it returned is sent as a body again
Renormalize ==
    /\ resp.op = "normalize" /\ resp.outcome = "ok"
    /\ resp' = Normalized("renormalize", ProfileMutation(AsPayload(resp.m)), resp.m)
    /\ UNCHANGED <<db, clock, next_uuid, fresh, pool, req>>

\* the body is sent to Create
Submit ==
    /\ resp.op = "normalize"
    /\ route_create_avatar(req.user_id, req.payload, None, clock, 0)

NextNorm == Normalize \/ Renormalize \/ Submit

SpecNorm == InitNorm /\ [][NextNorm]_vars

----------------------------------------------------------------------------
(* C14: normalization is idempotent: what the normalizer makes of a valid  *)
(* payload, sent as a payload again, is accepted and normalizes to the     *)
(* same mutation.                                                          *)

\* C14: the second normalization is accepted and returns the mutation the
\* first returned: the same name, enum values, flag, measurement mappings,
\* morph targets and settings
C14_NormalizationIdempotent ==
    resp.op = "renormalize" =>
        /\ resp.outcome = "ok"
        /\ resp.value = ProfileMutation(req.payload)
        /\ resp.m = resp.value

\* a payload with every kind of field, normalized twice
C14_Witness ==
    /\ resp.op = "renormalize" /\ resp.outcome = "ok"
    /\ req.payload = PayloadFull
    /\ resp.m.morph_targets # <<>> /\ resp.m.quick_mode_settings # None
    /\ resp.m.creation_mode = Str(<<"p", "r", "e", "s", "e", "t">>)

----------------------------------------------------------------------------
(* C15: morph-target normalization returns one entry for each distinct     *)
(* trimmed id, with the data of the last input entry of that id, in        *)
(* ascending order of id; and a mapping, a list of objects and a list of   *)
(* pairs that describe the same targets normalize to the same sequence,    *)
(* in whatever order they give them.                                       *)

\* the targets a morphTargets value describes, in its order: id and data
Targets(payload) ==
    [i \in 1..Len(payload.v) |->
        LET entry == payload.v[i]
        IN  IF IsMapping(payload) THEN [id |-> Str(entry.key), data |-> entry.value]
            ELSE IF IsDict(entry) THEN [id |-> Get(entry, "id"), data |-> entry]
            ELSE [id |-> entry.v[1], data |-> entry.v[2]]]

\* the id of a target as text, trimmed
TrimmedId(target) == Strip(StrOf(target.id))

\* the same targets as a list of {id, ...} objects
AsObjects(targets) ==
    List([i \in 1..Len(targets) |->
        LET data == targets[i].data
        IN  IF IsDict(data) THEN With(data, [id |-> targets[i].id])
            ELSE IF IsNull(data) THEN [id |-> targets[i].id]
            ELSE [id |-> targets[i].id, sliderValue |-> data]])

\* the same targets as a list of (id, value) pairs
AsPairs(targets) ==
    List([i \in 1..Len(targets) |-> List(<<targets[i].id, targets[i].data>>)])

\* the same targets as a mapping {id: value}
AsMapping(targets) ==
    Mapping([i \in 1..Len(targets) |-> KeyValue(StrOf(targets[i].id), targets[i].data)])

Reversed(seq) == [i \in 1..Len(seq) |-> seq[Len(seq) + 1 - i]]

\* the morphTargets of the body is a well-formed mapping or list, accepted
MorphTargetsAccepted ==
    /\ resp.op = "normalize" /\ resp.outcome = "ok"
    /\ IsDict(req.payload) /\ "morphTargets" \in DOMAIN req.payload
    /\ IsMapping(req.payload["morphTargets"]) \/ IsList(req.payload["morphTargets"])

\* C15: the entries returned have the distinct trimmed ids of the input,
\* one each, in strictly ascending order; each is what the last input entry
\* of its id normalizes to; and the same targets given as objects, as pairs
\* or as a mapping, and (when no id occurs twice) in the reverse order,
\* normalize to the same entries
C15_MorphTargetsCanonical ==
    MorphTargetsAccepted =>
        LET payload == req.payload["morphTargets"]
            targets == Targets(payload)
            out == resp.m.morph_targets
            ids == {TrimmedId(targets[i]) : i \in 1..Len(targets)}
            last(id) == CHOOSE i \in 1..Len(targets) :
                            /\ TrimmedId(targets[i]) = id
                            /\ \A j \in (i + 1)..Len(targets) : TrimmedId(targets[j]) # id
            orders == IF Cardinality(ids) = Len(targets)
                      THEN <<targets, Reversed(targets)>> ELSE <<targets>>
        IN  /\ {out[k].id.v : k \in 1..Len(out)} = ids
            /\ Len(out) = Cardinality(ids)
            /\ \A k, l \in 1..Len(out) : k < l => StrLess(out[k].id.v, out[l].id.v)
            /\ \A k \in 1..Len(out) :
                    out[k] = _normalize_morph_entry(targets[last(out[k].id.v)].id,
                                                    targets[last(out[k].id.v)].data)
            /\ \A o \in 1..Len(orders) :
                    /\ _normalize_morph_targets(AsObjects(orders[o])) = List(out)
                    /\ _normalize_morph_targets(AsPairs(orders[o])) = List(out)
                    /\ _normalize_morph_targets(AsMapping(orders[o])) = List(out)

\* a list in which an id occurs twice, the second time padded, between which
\* another id occurs: two entries are returned, the first with the later data
C15_Witness ==
    /\ MorphTargetsAccepted
    /\ IsList(req.payload["morphTargets"]) /\ Len(req.payload["morphTargets"].v) = 3
    /\ Len(resp.m.morph_targets) = 2
    /\ resp.m.morph_targets[1].id = Str(<<"a">>)
    /\ resp.m.morph_targets[1].value = Float(3)
    /\ resp.m.morph_targets[2].id = Str(<<"b">>)

----------------------------------------------------------------------------
(* C16: a creationMode key inside basicMeasurements or bodyMeasurements is *)
(* never stored as a measurement: it is validated as the creation_mode     *)
(* enum, it becomes the creation_mode of the profile when the payload has  *)
(* no top-level creationMode, and neither the measurement mappings handed  *)
(* to the store nor the rows written contain it.                           *)

\* the creationMode inside a measurement section of the body, Absent when
\* there is none
Embedded(payload, section_name) ==
    IF /\ section_name \in DOMAIN payload
       /\ IsDict(payload[section_name])
       /\ "creationMode" \in DOMAIN payload[section_name]
    THEN payload[section_name]["creationMode"] ELSE Absent

\* a value of creationMode that names a mode, and the mode it names
NamesMode(value) == IsText(value) /\ Strip(value.v) # <<>>

ModeOf(value) == Str(Lower(Strip(value.v)))

\* a value the creation_mode enum does not admit
NotAMode(value) ==
    /\ value # Absent /\ ~IsNull(value)
    /\ ~IsText(value) \/ (NamesMode(value) /\ ModeOf(value).v \notin _ALLOWED_CREATION_MODES)

\* the body sent to Create has nothing but creationMode and measurements
CreationModeBody ==
    /\ req.op = "create" /\ IsDict(req.payload)
    /\ DOMAIN req.payload = {"basicMeasurements", "bodyMeasurements"}
       \/ DOMAIN req.payload = {"creationMode", "basicMeasurements", "bodyMeasurements"}

----------------------------------------------------------------------------
(* C17: whenever a top-level creationMode and a creationMode inside        *)
(* basicMeasurements or bodyMeasurements are both present and differ after *)
(* normalization, the payload is rejected with a validation error naming   *)
(* creationMode.                                                           *)

\* a value that names a mode of the enum
NamesValidMode(value) ==
    NamesMode(value) /\ ModeOf(value).v \in _ALLOWED_CREATION_MODES

\* C17, as stated: a body whose top-level creationMode names one mode while
\* the creationMode of one of its measurement sections names another is
\* rejected, and the error names creationMode
C17_ConflictRejected ==
    (/\ resp.op = "normalize" /\ IsDict(req.payload)
     /\ NamesValidMode(Get(req.payload, "creationMode"))
     /\ \E section_name \in {"basicMeasurements", "bodyMeasurements"} :
            /\ NamesValidMode(Embedded(req.payload, section_name))
            /\ ModeOf(Embedded(req.payload, section_name))
                    # ModeOf(Get(req.payload, "creationMode")))
        => (resp.outcome = "Invalid" /\ resp.value.field = "creationMode")

----------------------------------------------------------------------------
(* C18: for gender, ageRange, creationMode and source, a string is         *)
(* accepted exactly when, trimmed and lower-cased, it is empty (the field  *)
(* is then absent) or a member of the allow-list of the field (for         *)
(* ageRange the labels such as "20-29" included); an accepted value        *)
(* reaches the store lower-cased, and any other value is rejected with a   *)
(* validation error naming the field.                                      *)

\* the allow-list of an enum field of the body
AllowList(field) ==
    CASE field = "gender" -> _ALLOWED_GENDERS
      [] field = "ageRange" ->
            _ALLOWED_AGE_RANGES
                \cup {_AGE_RANGE_UI_LABELS[i] : i \in 1..Len(_AGE_RANGE_UI_LABELS)}
      [] field = "creationMode" -> _ALLOWED_CREATION_MODES
      [] field = "source" -> _ALLOWED_SOURCES

\* the keyword argument and the column an enum field of the body goes to
ColumnOf(field) ==
    CASE field = "gender" -> "gender"
      [] field = "ageRange" -> "age_range"
      [] field = "creationMode" -> "creation_mode"
      [] field = "source" -> "source"

\* the body has one enum field and nothing else
EnumBody ==
    /\ resp.op \in {"normalize", "create"} /\ IsDict(req.payload)
    /\ \E field \in EnumFields : DOMAIN req.payload = {field}

\* C18: a body whose only field is an enum field with a string is accepted
\* exactly when the string, trimmed and lower-cased, is empty or in the
\* allow-list of the field; when accepted the mutation, and the header a
\* Create stores, have null for the empty string and the trimmed,
\* lower-cased string otherwise; when rejected the error names the field.
\* A value that is neither a string nor null is rejected naming the field
C18_EnumAcceptance ==
    EnumBody =>
        LET field == CHOOSE f \in EnumFields : f \in DOMAIN req.payload
            value == req.payload[field]
            canonical == Lower(Strip(value.v))
            expected == IF canonical = <<>> THEN None ELSE Str(canonical)
        IN  /\ IsText(value) =>
                /\ resp.outcome = "ok" <=> (canonical = <<>> \/ canonical \in AllowList(field))
                /\ resp.outcome \in {"ok", "Invalid"}
                /\ resp.outcome = "ok" =>
                        /\ resp.m[ColumnOf(field)] = expected
                        /\ resp.op = "create" =>
                                /\ db.avatars # {}
                                /\ \A r \in db.avatars : r[ColumnOf(field)] = expected
                /\ resp.outcome = "Invalid" =>
                        /\ resp.value.field = field
                        /\ db.avatars = {}
            /\ (~IsText(value) /\ ~IsNull(value)) =>
                    /\ resp.outcome = "Invalid" /\ resp.value.field = field
            /\ IsNull(value) => resp.outcome = "ok" /\ resp.m[ColumnOf(field)] = None

\* a profile stored with the age range of the label " 90-99 ", trimmed
C18_Witness ==
    /\ EnumBody /\ resp.op = "create" /\ resp.outcome = "ok"
    /\ req.payload = Field("ageRange", Str(<<" ", "9", "0", "-", "9", "9", " ">>))
    /\ \E r \in db.avatars : r.age_range = Str(<<"9", "0", "-", "9", "9">>)

----------------------------------------------------------------------------
(* C19: the quick_mode handed to the store is the payload's boolean        *)
(* quickMode (false when absent) or'ed with "the normalized                *)
(* quickModeSettings is not null"; a quickMode that is present and not a   *)
(* boolean is rejected with a validation error naming quickMode.           *)

\* the body has quickMode and quickModeSettings at most
QuickBody ==
    /\ resp.op \in {"normalize", "create"} /\ IsDict(req.payload)
    /\ DOMAIN req.payload \subseteq {"quickMode", "quickModeSettings"}

\* C19: for a body accepted, quick_mode of the mutation, and of the header a
\* Create stores, is true exactly when quickMode is true or the normalized
\* settings are not null; a body whose quickMode is neither null nor a
\* boolean is rejected, and the error names quickMode when the settings of
\* the body are valid (their error is raised first otherwise)
C19_QuickModeFlag ==
    QuickBody =>
        LET flag == Get(req.payload, "quickMode")
            settings == _normalize_quick_mode_settings(Get(req.payload, "quickModeSettings"))
        IN  /\ resp.outcome = "ok" =>
                /\ IsNull(flag) \/ IsBool(flag)
                /\ resp.m.quick_mode_settings = settings
                /\ resp.m.quick_mode <=>
                        ((IsBool(flag) /\ flag.v = 1) \/ ~IsNull(resp.m.quick_mode_settings))
                /\ resp.op = "create" =>
                        /\ db.avatars # {}
                        /\ \A r \in db.avatars : r.quick_mode = resp.m.quick_mode
            /\ (~IsNull(flag) /\ ~IsBool(flag)) =>
                    /\ resp.outcome = "Invalid"
                    /\ ~IsAbort(settings) => resp.value.field = "quickMode"
            /\ ((IsNull(flag) \/ IsBool(flag)) /\ ~IsAbort(settings)) => resp.outcome = "ok"

\* a profile stored with quick_mode true from a body whose quickMode is false
\* and whose settings have a measurement
C19_Witness ==
    /\ QuickBody /\ resp.op = "create" /\ resp.outcome = "ok"
    /\ Get(req.payload, "quickMode") = Bool(FALSE)
    /\ IsDict(resp.m.quick_mode_settings) /\ "measurements" \in DOMAIN resp.m.quick_mode_settings
    /\ \E r \in db.avatars : r.quick_mode

----------------------------------------------------------------------------
(* C20: a quickModeSettings object with a key other than bodyShape,        *)
(* athleticLevel and measurements is rejected, and the validation error    *)
(* names every unexpected key.                                             *)

\* the keys of the body's quickModeSettings object outside the three
UnexpectedKeys ==
    LET settings == Get(req.payload, "quickModeSettings")
    IN  IF IsMapping(settings)
        THEN {settings.v[i].key : i \in 1..Len(settings.v)}
                \ {BodyShapeKey, AthleticLevelKey, MeasurementsKey}
        ELSE {}

----------------------------------------------------------------------------
(* C21: a quickModeSettings.updatedAt value is validated as a timestamp: a *)
(* valid one is accepted and passed to the store with the settings, and   *)
(* one that is not a valid timestamp is rejected with a 400 validation     *)
(* error whose message names quickModeSettings.updatedAt.                  *)

\* the body's quickModeSettings object has updatedAt and, of the other
\* keys, bodyShape at most
UpdatedAtBody ==
    /\ QuickBody /\ IsMapping(Get(req.payload, "quickModeSettings"))
    /\ UpdatedAtKey \in Keys(Get(req.payload, "quickModeSettings"))
    /\ Keys(Get(req.payload, "quickModeSettings")) \subseteq {UpdatedAtKey, BodyShapeKey}
    /\ Get(req.payload, "quickMode") \in {None, Bool(TRUE), Bool(FALSE)}

\* C21: a body with a settings updatedAt that parses as a timestamp is
\* accepted and the settings handed to the store have that updatedAt; one
\* with an updatedAt that does not parse is rejected with status 400 and an
\* error about quickModeSettings.updatedAt
C21_UpdatedAtValidated ==
    UpdatedAtBody =>
        LET updated_at == MGet(Get(req.payload, "quickModeSettings"), UpdatedAtKey)
        IN  IF IsDatetime(_coerce_datetime(updated_at))
            THEN /\ resp.outcome = "ok"
                 /\ IsDict(resp.m.quick_mode_settings)
                 /\ Get(resp.m.quick_mode_settings, "updatedAt") = updated_at
            ELSE /\ resp.outcome = "Invalid"
                 /\ resp.value.status = 400
                 /\ resp.value.field = "quickModeSettings.updatedAt"

----------------------------------------------------------------------------
(* C22: the Normalizer tells the store whether the payload contained the   *)
(* quickModeSettings key: the presence flag quick_mode_settings_is_set is  *)
(* true for any inclusion of the key, an explicit null included, and false *)
(* when the key is omitted.                                                *)

\* C22: the keyword arguments _apply_payload makes of an accepted body have
\* quick_mode_settings_is_set, and it is true exactly when the body has the
\* key quickModeSettings
C22_PresenceFlag ==
    (resp.op \in {"normalize", "create"} /\ resp.outcome = "ok" /\ IsDict(req.payload)) =>
        /\ "quick_mode_settings_is_set" \in DOMAIN resp.m
        /\ resp.m["quick_mode_settings_is_set"] = ("quickModeSettings" \in DOMAIN req.payload)

----------------------------------------------------------------------------
(* C23: any non-numeric value in basicMeasurements, bodyMeasurements or    *)
(* quickModeSettings.measurements causes the payload to be rejected with a *)
(* validation error that names the offending key (for quick-mode           *)
(* measurements, the path quickModeSettings.measurements[key]).            *)

\* a JSON number: true and false are not numbers
IsJsonNumber(x) == IsScalar(x) /\ x.t \in {"int", "float"}

\* the keys of a measurements object of the body whose values are not
\* numbers, creationMode aside
NonNumericKeys(section_name) ==
    LET section == Get(req.payload, section_name)
    IN  IF IsDict(section)
        THEN {k \in DOMAIN section \ {"creationMode"} : ~IsJsonNumber(section[k])}
        ELSE {}

\* the keys of quickModeSettings.measurements, trimmed, whose values are not
\* numbers
NonNumericQuickKeys ==
    LET settings == Get(req.payload, "quickModeSettings")
        items == IF IsMapping(settings) /\ IsMapping(MGet(settings, MeasurementsKey))
                 THEN MGet(settings, MeasurementsKey).v ELSE <<>>
    IN  {Strip(items[i].key) : i \in {j \in 1..Len(items) : ~IsJsonNumber(items[j].value)}}

\* the body has one field, a measurements object or quickModeSettings
MeasurementsBody ==
    /\ resp.op \in {"normalize", "create"} /\ IsDict(req.payload)
    /\ \E k \in {"basicMeasurements", "bodyMeasurements", "quickModeSettings"} :
            DOMAIN req.payload = {k}

\* C23: a body with a value that is not a number in one of the three
\* measurement objects is rejected, and the error is about that object and
\* names the key of such a value
C23_NonNumericRejected ==
    MeasurementsBody =>
        /\ \A section_name \in {"basicMeasurements", "bodyMeasurements"} :
                NonNumericKeys(section_name) # {} =>
                    /\ resp.outcome = "Invalid"
                    /\ resp.value.field = section_name
                    /\ \E k \in NonNumericKeys(section_name) : resp.value.names = <<Chars(k)>>
        /\ NonNumericQuickKeys # {} =>
                /\ resp.outcome = "Invalid"
                /\ resp.value.field = "quickModeSettings.measurements"
                /\ \E key \in NonNumericQuickKeys : resp.value.names = <<key>>

----------------------------------------------------------------------------
(* Creates and updates through the routes with bodies that have a name at  *)
(* most: absent, null, empty, blank, padded, plain, and not a string.      *)

NamePayloads ==
    {EmptyDict, Field("name", None), Field("name", Str(<<>>)), Field("name", Str(Blank)),
     Field("name", Str(PaddedA)), Field("name", Str(NameA)), Field("name", Str(NameB)),
     Field("name", PyInt(1))}

NameIds == {Canonical(n) : n \in Uuids}

NextName ==
    \/ /\ next_uuid <= MaxUuid
       /\ \E p \in NamePayloads : route_create_avatar("u1", p, None, clock, 0)
    \/ \E a \in NameIds, p \in NamePayloads : route_update_avatar("u1", a, p, None, clock, 0)

SpecName == Init /\ [][NextName]_vars

----------------------------------------------------------------------------
(* C24: the stored name of a created or updated profile is the payload's   *)
(* name with surrounding whitespace removed, or "Untitled Avatar" when the *)
(* name is missing or blank after trimming (a blank name is never a        *)
(* validation error); a name that is present and not a string is rejected. *)

\* n is s without the whitespace at its two ends
IsTrimOf(n, s) ==
    /\ n # <<>> => ~IsSpace(n[1]) /\ ~IsSpace(n[Len(n)])
    /\ \E i, j \in 0..Len(s) :
        /\ i + Len(n) + j = Len(s)
        /\ \A k \in 1..Len(s) : IF k <= i \/ k > i + Len(n) THEN IsSpace(s[k])
                                ELSE s[k] = n[k - i]

\* the name a profile made of the body is to be stored under
ExpectedName ==
    LET name == Get(req.payload, "name")
    IN  IF IsText(name) /\ ~IsTrimOf(<<>>, name.v)
        THEN CHOOSE n \in {SubSeq(name.v, i, j) : i, j \in 1..Len(name.v)} :
                IsTrimOf(n, name.v)
        ELSE UntitledAvatar

\* C24: a Create or an Update through its route with a body whose name is
\* absent, null or a string is never refused as invalid, and when it
\* succeeds the header of the profile, and the profile returned, have the
\* name trimmed, or Untitled Avatar when nothing is left; a body whose name
\* is neither null nor a string is refused with an error about the name
C24_StoredName ==
    req.op \in {"create", "update"} =>
        LET name == Get(req.payload, "name")
        IN  /\ (IsNull(name) \/ IsText(name)) => resp.outcome # "Invalid"
            /\ (~IsNull(name) /\ ~IsText(name)) =>
                    /\ resp.outcome = "Invalid"
                    /\ resp.value.field = "name"
            /\ resp.outcome = "ok" =>
                    /\ resp.value.name = ExpectedName
                    /\ \E r \in db.avatars :
                        r.id = resp.avatar_id /\ r.name = ExpectedName

\* an Update with a blank name has stored Untitled Avatar, in the place of a
\* name the profile had
C24_Witness ==
    /\ req.op = "update" /\ resp.outcome = "ok"
    /\ Get(req.payload, "name") = Str(Blank)
    /\ \E r \in db.avatars : r.id = resp.avatar_id /\ r.name = UntitledAvatar
    /\ \E r \in db.avatars : r.name = NameA

----------------------------------------------------------------------------
(* Profiles with and without the quick-mode flag and with and without      *)
(* settings, as the routes make them (the flag is true whenever there are  *)
(* settings), read back by every operation that returns a profile.         *)

QuickMutations ==
    {Mutation(NameA, FALSE, FALSE, NoSatellites),
     Mutation(NameB, FALSE, TRUE, NoSatellites),
     Mutation(NameA, FALSE, FALSE, SatellitesTwo),
     Mutation(NameB, TRUE, TRUE, SatellitesOne)}

NextQuick ==
    \/ \E l \in Limits : list_avatars("u1", l, None, clock, 0)
    \/ \E a \in Uuids : get_avatar("u1", a, clock, 0)
    \/ /\ next_uuid <= MaxUuid
       /\ \E m \in QuickMutations : create_avatar("u1", m, None, clock, 0)
    \/ \E a \in Uuids, m \in QuickMutations : update_avatar("u1", a, m, None, clock, 0)

SpecQuick == Init /\ [][NextQuick]_vars

----------------------------------------------------------------------------
(* C25: on every read path (Get, List, and the profile returned by Create  *)
(* and Update) the returned quickMode equals (stored quick_mode flag) OR   *)
(* (the returned quickModeSettings is non-null).                           *)

\* the profile returned is of a stored header, and its quickMode is that
\* header's flag or'ed with its quickModeSettings being there
QuickModeDerived(avatar) ==
    \E r \in db.avatars :
        /\ r.id = avatar.id
        /\ avatar.quickMode <=> (r.quick_mode \/ avatar.quickModeSettings # None)

\* C25: the profile a successful Get, Create or Update returns, and every
\* profile a successful List returns, has quickMode true exactly when the
\* stored flag is true or its quickModeSettings is not null
C25_EffectiveQuickMode ==
    resp.outcome = "ok" =>
        /\ resp.op \in {"get", "create", "update"} => QuickModeDerived(resp.value)
        /\ resp.op = "list" =>
                \A i \in 1..Len(resp.value.items) : QuickModeDerived(resp.value.items[i])

\* a List that returns a profile with the flag and no settings, and one with
\* settings
C25_Witness ==
    /\ resp.op = "list" /\ resp.outcome = "ok" /\ Len(resp.value.items) = 2
    /\ \E i \in 1..2 :
        /\ resp.value.items[i].quickMode
        /\ resp.value.items[i].quickModeSettings = None
    /\ \E i \in 1..2 : resp.value.items[i].quickModeSettings # None

----------------------------------------------------------------------------
(* The repository called with settings whose fields are blank: it trims    *)
(* them itself (body_shape.strip() or None) and writes the record with     *)
(* every field empty.                                                      *)

BlankSettings == [bodyShape |-> Str(Blank), measurements |-> EmptyDict]

BlankMutations ==
    {[Mutation(NameA, FALSE, FALSE, NoSatellites) EXCEPT !.quick_mode_settings = BlankSettings],
     [Mutation(NameB, FALSE, FALSE, NoSatellites) EXCEPT !.quick_mode_settings = BlankSettings,
                                                         !.quick_mode = TRUE],
     Mutation(NameA, FALSE, FALSE, SatellitesTwo),
     Mutation(NameB, FALSE, FALSE, NoSatellites)}

NextBlank ==
    \/ \E l \in Limits : list_avatars("u1", l, None, clock, 0)
    \/ \E a \in Uuids : get_avatar("u1", a, clock, 0)
    \/ /\ next_uuid <= MaxUuid
       /\ \E m \in BlankMutations : create_avatar("u1", m, None, clock, 0)
    \/ \E a \in Uuids, m \in BlankMutations : update_avatar("u1", a, m, None, clock, 0)

SpecBlank == Init /\ [][NextBlank]_vars

----------------------------------------------------------------------------
(* C26: a stored quick-mode-settings record whose body_shape,              *)
(* athletic_level and measurements are all empty is returned on read as    *)
(* quickModeSettings = null (and therefore does not by itself make         *)
(* quickMode true).                                                        *)

\* the record of settings stored for the profile has nothing in its three
\* fields
EmptySettingsStored(avatar_id) ==
    \E q \in db.quick :
        /\ q.avatar_id = avatar_id
        /\ q.body_shape \in {None, Str(<<>>)}
        /\ q.athletic_level \in {None, Str(<<>>)}
        /\ q.measurements = EmptyDict

\* a profile returned whose stored settings are empty has no
\* quickModeSettings, and the quickMode of its stored flag
EmptySettingsCollapsed(avatar) ==
    EmptySettingsStored(avatar.id) =>
        /\ avatar.quickModeSettings = None
        /\ \E r \in db.avatars : r.id = avatar.id /\ (avatar.quickMode <=> r.quick_mode)

\* C26: every profile a successful Get, Create, Update or List returns whose
\* stored settings record is empty in its three fields has quickModeSettings
\* null, and quickMode equal to the stored flag
C26_EmptySettingsReadAsNull ==
    resp.outcome = "ok" =>
        /\ resp.op \in {"get", "create", "update"} => EmptySettingsCollapsed(resp.value)
        /\ resp.op = "list" =>
                \A i \in 1..Len(resp.value.items) : EmptySettingsCollapsed(resp.value.items[i])

----------------------------------------------------------------------------
(* Writes by two users of profiles whose morph targets give a backend key, *)
(* give another, or give none, and reads and deletes of those profiles.    *)

SatellitesKeyJ ==
    [NoSatellites EXCEPT !.morph_targets =
        <<[id |-> Str(<<"a">>), backendKey |-> Str(<<"j">>)],
          [id |-> Str(<<"b">>), backendKey |-> Str(<<"k">>)]>>]

DefinitionMutations ==
    {Mutation(NameA, FALSE, FALSE, SatellitesOne),
     Mutation(NameB, FALSE, FALSE, SatellitesTwo),
     Mutation(NameA, FALSE, FALSE, SatellitesKeyJ)}

NextDefinitions ==
    \/ /\ next_uuid <= MaxUuid
       /\ \E u \in Users, m \in DefinitionMutations : create_avatar(u, m, None, clock, 0)
    \/ \E u \in Users, a \in Uuids, m \in DefinitionMutations :
            update_avatar(u, a, m, None, clock, 0)
    \/ \E u \in Users, a \in Uuids : delete_avatar(u, a, clock, 0)
    \/ \E u \in Users, a \in Uuids : get_avatar(u, a, clock, 0)

SpecDefinitions == Init /\ [][NextDefinitions]_vars

----------------------------------------------------------------------------
(* C27: after any sequence of profile writes by any users, the shared      *)
(* morph definition for a morph id holds the most recent non-null backend  *)
(* key supplied for that id (null only if none was ever supplied): a write *)
(* that omits the backend key never clears or changes a key already        *)
(* learned, and no Delete or Update removes a definition.                  *)

\* the morph ids a mutation names
SuppliedIds(m) ==
    {Strip(m.morph_targets[i].id.v) : i \in 1..Len(m.morph_targets)} \ {<<>>}

\* the backend key a mutation supplies for a morph id, None when its last
\* target of that id has none
SuppliedKey(m, id) ==
    LET last == CHOOSE i \in 1..Len(m.morph_targets) :
                    /\ Strip(m.morph_targets[i].id.v) = id
                    /\ \A j \in (i + 1)..Len(m.morph_targets) :
                            Strip(m.morph_targets[j].id.v) # id
        key == Get(m.morph_targets[last], "backendKey")
    IN  IF IsStr(key) /\ Strip(key.v) # <<>> THEN Str(Strip(key.v)) ELSE None

\* the backend key of the definition of id in the tables d, Absent when
\* there is none
DefinedKey(d, id) ==
    IF \E r \in d.defs : r.id = id
    THEN (CHOOSE r \in d.defs : r.id = id).backend_key
    ELSE Absent

\* the morph ids that have a definition
DefinedIds(d) == {r.id : r \in d.defs}

\* one step: a successful Create or Update is a write of resp'.m
DefinitionsStep ==
    LET wrote == resp'.op \in {"create", "update"} /\ resp'.outcome = "ok"
        ids == IF wrote THEN SuppliedIds(resp'.m) ELSE {}
    IN  /\ DefinedIds(db') = DefinedIds(db) \cup ids
        /\ Cardinality(db'.defs) = Cardinality(DefinedIds(db'))
        /\ \A id \in DefinedIds(db') :
            DefinedKey(db', id) =
                IF id \in ids /\ SuppliedKey(resp'.m, id) # None
                THEN SuppliedKey(resp'.m, id)
                ELSE IF id \in DefinedIds(db) THEN DefinedKey(db, id)
                ELSE None

\* C27: in every step the definitions are those there were and those of the
\* ids a successful write names; the key of each is the one the write
\* supplies when it supplies one, and otherwise the key it had (null for
\* a new definition); a Delete and a failed operation change nothing
C27_DefinitionsKeepKeys == [][DefinitionsStep]_vars

\* a successful write that names the morph a without a key has left the
\* definition of a with the key j, learned from an earlier write, and no
\* profile has a key for a any more
C27_Witness ==
    /\ resp.op \in {"create", "update"} /\ resp.outcome = "ok"
    /\ <<"a">> \in SuppliedIds(resp.m) /\ SuppliedKey(resp.m, <<"a">>) = None
    /\ DefinedKey(db, <<"a">>) = Str(<<"j">>)
    /\ \A r \in db.morphs : r.morph_id = <<"a">> => r.backend_key = None

----------------------------------------------------------------------------
(* Overlapping Creates of one user, each profile named after its id.       *)

\* the connections of two overlapping requests
RaceConns == {c \in Conns : c <= 2}

NextRace ==
    \/ /\ next_uuid <= MaxQuotaUuid
       /\ \E c \in RaceConns, u \in QuotaUsers, x \in Contexts :
            Call(c, "create", u, next_uuid, QuotaMutation(next_uuid), x, 0)
    \/ \E c \in RaceConns : Statement(c)
    \/ \E c \in RaceConns : Return(c)

SpecRace == Init /\ [][NextRace]_vars

----------------------------------------------------------------------------
(* C28: with two overlapping Create transactions for the same user there   *)
(* is an interleaving in which both read the same set of used slots and    *)
(* both choose the same slot: no application-level lock prevents it, so    *)
(* unless the storage schema enforces uniqueness of (user_id, slot) both   *)
(* commit and the user ends with two profiles in one slot (and can end     *)
(* with more than 5 profiles).                                             *)

\* the slots of the committed headers of a user
CommittedSlots(user_id) == {r.slot : r \in {a \in db.avatars : a.user_id = user_id}}

\* the statement connection c is about to execute, "" when it has none
NextStatement(c) ==
    IF Busy(c) /\ pool[c].outcome = Running /\ pool[c].pc <= Len(pool[c].prog)
    THEN pool[c].prog[pool[c].pc] ELSE ""

\* one step of overlapping Creates
RaceStep ==
    \A c \in Conns :
        \* the slot query and the header INSERT of a Create wait for no other
        \* transaction
        /\ NextStatement(c) \in {"find_slot", "insert_avatar"} => ~Waits(c)
        \* the slot query reads the committed headers only, whatever the
        \* transactions in progress have inserted
        /\ NextStatement(c) = "find_slot" /\ pool'[c] # pool[c] =>
            LET free == (1..MaxAvatars) \ CommittedSlots(pool[c].user_id)
            IN  IF free = {} THEN pool'[c].outcome = "QuotaExceeded"
                ELSE /\ pool'[c].outcome = Running
                     /\ pool'[c].slot \in free
                     /\ \A s \in free : pool'[c].slot <= s
        \* the commit of a Create stores its header in the slot it chose,
        \* whatever the headers committed since
        /\ Busy(c) /\ pool'[c] = Idle /\ resp'.outcome = "ok" =>
            /\ pool[c].slot \in 1..MaxAvatars
            /\ \E r \in db'.avatars :
                /\ r.id = pool[c].avatar_id /\ r.user_id = pool[c].user_id
                /\ r.slot = pool[c].slot
                /\ db'.avatars = db.avatars \cup {r}

\* C28: the slot query of a Create never waits and chooses the lowest slot
\* free among the committed headers, and the Create commits its header in
\* that slot; so two Creates of a user that overlap choose the same slot
\* and both commit
C28_SlotRace == [][RaceStep]_vars

\* a user has six profiles, two of them in the same slot
C28_Witness ==
    /\ Cardinality({r \in db.avatars : r.user_id = "u1"}) > MaxAvatars
    /\ \E r \in db.avatars, o \in db.avatars :
        r.id # o.id /\ r.user_id = "u1" /\ o.user_id = "u1" /\ r.slot = o.slot
    /\ \A c \in Conns : ~Busy(c)

----------------------------------------------------------------------------
(* Overlapping requests of one user against a store that may fail at any   *)
(* statement and at the commit.                                            *)

PoolMutations == {Mutation(NameA, FALSE, FALSE, NoSatellites)}

NextPool ==
    \/ \E c \in RaceConns, u \in QuotaUsers, l \in Limits, x \in Contexts :
            Call(c, "list", u, 0, None, x, l)
    \/ \E c \in RaceConns, u \in QuotaUsers, a \in Uuids : Call(c, "get", u, a, None, None, 0)
    \/ /\ next_uuid <= MaxUuid
       /\ \E c \in RaceConns, u \in QuotaUsers, m \in PoolMutations, x \in Contexts :
                Call(c, "create", u, next_uuid, m, x, 0)
    \/ \E c \in RaceConns, u \in QuotaUsers, a \in Uuids, m \in PoolMutations, x \in Contexts :
            Call(c, "update", u, a, m, x, 0)
    \/ \E c \in RaceConns, u \in QuotaUsers, a \in Uuids : Call(c, "delete", u, a, None, None, 0)
    \/ \E c \in RaceConns : Statement(c)
    \/ \E c \in RaceConns : Fault(c)
    \/ \E c \in RaceConns : Return(c)

SpecPool == Init /\ [][NextPool]_vars

----------------------------------------------------------------------------
(* C29: every connection an operation takes from the pool is returned to   *)
(* the pool exactly once when the operation ends, whether it commits or    *)
(* raises (including when the failure occurs on the first statement);      *)
(* whenever no operation is in progress the number of checked-out          *)
(* connections is 0, and each operation ends with exactly one of commit or *)
(* rollback.                                                               *)

\* the connections that are out of the pool
CheckedOut == {c \in Conns : pool[c] # Idle}

\* the connections on which an operation is in progress
InProgress == {c \in Conns : "op" \in DOMAIN pool[c]}

\* one step of the pool
PoolStep ==
    /\ \A c \in Conns :
        \* an operation takes one connection, an idle one, and starts on it
        /\ c \notin CheckedOut /\ pool'[c] # pool[c] =>
            /\ "op" \in DOMAIN pool'[c]
            /\ pool'[c].outcome = Running /\ pool'[c].pc = 1
            /\ pool'[c].w = NoWrites
            /\ \A o \in Conns \ {c} : pool'[o] = pool[o]
        \* while it is in progress it keeps that connection
        /\ c \in InProgress /\ "op" \in DOMAIN pool'[c] =>
            /\ pool'[c].op = pool[c].op
            /\ pool'[c].user_id = pool[c].user_id
            /\ pool'[c].avatar_id = pool[c].avatar_id
        \* when it ends the connection is back in the pool, after a commit
        \* if the handler has run to its end and after a rollback if it has
        \* raised
        /\ c \in InProgress /\ "op" \notin DOMAIN pool'[c] =>
            /\ pool'[c] = Idle
            /\ resp'.op = pool[c].op
            /\ IF pool[c].outcome = Running
               THEN /\ pool[c].pc > Len(pool[c].prog)
                    /\ resp'.outcome = "ok"
                    /\ db' = View(db, pool[c].w)
               ELSE /\ resp'.outcome = pool[c].outcome
                    /\ db' = db
    \* nothing is committed but by an operation that ends
    /\ db' # db => \E c \in InProgress : "op" \notin DOMAIN pool'[c]

\* C29: the connections out of the pool are those of the operations in
\* progress, none when there is none; an operation takes one idle
\* connection, keeps it, and at its end puts it back after exactly one of
\* commit (it ran to its end) and rollback (it raised, at any statement)
C29_ConnectionReturned == [](CheckedOut = InProgress) /\ [][PoolStep]_vars

\* a Create has ended with a storage fault at its first statement (nothing
\* to roll back, and the user it would have inserted is not there) and no
\* connection is out of the pool
C29_Witness ==
    /\ resp.op = "create" /\ resp.outcome = "StorageFault"
    /\ resp.rolled_back = {}
    /\ db.users = {}
    /\ CheckedOut = {}

----------------------------------------------------------------------------
(* Overlapping requests of one user that carry the context of the identity *)
(* provider: complete, complete with other values and timestamps given as  *)
(* a number and as ISO text, with fields missing, or none.                 *)

ContextOne ==
    [id |-> Str(<<"u", "1">>), email |-> Str(<<"e", "1">>),
     session_id |-> Str(<<"s", "1">>), issued_at |-> Datetime(1),
     expires_at |-> Datetime(2), access_token |-> Str(<<"a", "1">>),
     refresh_token |-> Str(<<"r", "1">>)]

ContextTwo ==
    [id |-> Str(<<"u", "1">>), email |-> Str(<<"e", "2">>),
     session_id |-> Str(<<"s", "2">>), issued_at |-> Float(2),
     expires_at |-> _isoformat(Datetime(3)), access_token |-> Str(<<"a", "2">>),
     refresh_token |-> None]

ContextPartial == [id |-> Str(<<"u", "1">>), email |-> Str(<<"e", "3">>)]

SyncContexts == {None, ContextOne, ContextTwo, ContextPartial}

NextSync ==
    \/ \E c \in RaceConns, u \in QuotaUsers, l \in Limits, x \in SyncContexts :
            Call(c, "list", u, 0, None, x, l)
    \/ /\ next_uuid <= MaxUuid
       /\ \E c \in RaceConns, u \in QuotaUsers, m \in PoolMutations, x \in SyncContexts :
                Call(c, "create", u, next_uuid, m, x, 0)
    \/ \E c \in RaceConns, u \in QuotaUsers, a \in Uuids, m \in PoolMutations,
          x \in SyncContexts : Call(c, "update", u, a, m, x, 0)
    \/ \E c \in RaceConns : Statement(c)
    \/ \E c \in RaceConns : Return(c)

SpecSync == Init /\ [][NextSync]_vars

----------------------------------------------------------------------------
(* C30: user sync without a UserContext inserts a users row for user_id if *)
(* none exists and never modifies an existing row; user sync with a        *)
(* UserContext makes the row's email, session_id, issued_at, expires_at,   *)
(* access_token and refresh_token equal to those of that context (last     *)
(* committed write wins, a field missing from the context overwriting the  *)
(* stored value with null).                                                *)

\* the value a context gives for a field, null when it gives none
ContextField(x, k) == IF k \in DOMAIN x THEN x[k] ELSE None

\* the instant a timestamp of a context denotes, whether it is given as a
\* datetime, as seconds since the epoch or as ISO-8601 text
Instant(value) ==
    CASE value.t = "None" -> None
      [] value.t = "datetime" -> value
      [] value.t = "float" -> Datetime(value.v)
      [] value.t = "str" -> Datetime(value.iso)

\* the row of user_id agrees with the context x
SyncedWith(row, x) ==
    /\ row.email = ContextField(x, "email")
    /\ row.session_id = ContextField(x, "session_id")
    /\ row.issued_at = Instant(ContextField(x, "issued_at"))
    /\ row.expires_at = Instant(ContextField(x, "expires_at"))
    /\ row.access_token = ContextField(x, "access_token")
    /\ row.refresh_token = ContextField(x, "refresh_token")

\* a row with no field set
BareRow(row) ==
    /\ row.email = None /\ row.session_id = None /\ row.issued_at = None
    /\ row.expires_at = None /\ row.access_token = None /\ row.refresh_token = None

\* the step in which the operation on connection c ends
SyncStep ==
    \A c \in Conns :
        "op" \in DOMAIN pool[c] /\ pool'[c] = Idle =>
            LET cx == pool[c]
                before == {r \in db.users : r.id = cx.user_id}
                after == {r \in db'.users : r.id = cx.user_id}
            IN  /\ {r \in db'.users : r.id # cx.user_id}
                        = {r \in db.users : r.id # cx.user_id}
                /\ IF resp'.outcome # "ok" THEN after = before
                   ELSE IF cx.user_context = None
                   THEN /\ before # {} => after = before
                        /\ before = {} =>
                            /\ Cardinality(after) = 1
                            /\ \A r \in after : BareRow(r)
                   ELSE /\ Cardinality(after) = 1
                        /\ \A r \in after : SyncedWith(r, cx.user_context)

\* C30: an operation that commits without a context leaves the row of its
\* user as it was, or inserts one with no field set when there was none;
\* one that commits with a context leaves one row of its user, its six
\* fields those of the context, null where the context has none; one that
\* is rolled back leaves the users as they were
C30_UserSync == [][SyncStep]_vars

\* the last operation committed carried the context with fields missing,
\* and the row that had the fields of another context has them null; an
\* operation in progress has written the row with a third context
C30_Witness ==
    /\ resp.outcome = "ok"
    /\ \E r \in db.users :
        /\ r.id = "u1" /\ r.email = Str(<<"e", "3">>)
        /\ r.session_id = None /\ r.issued_at = None /\ r.refresh_token = None
        /\ r.updated_at # ColumnDefault
    /\ \E c \in Conns :
        /\ "op" \in DOMAIN pool[c]
        /\ \E r \in pool[c].w.ins["users"] : r.email = Str(<<"e", "1">>)

----------------------------------------------------------------------------
(* C31: Create, Update and List run the user sync as the first step of     *)
(* their transaction, before the slot computation and before any avatar    *)
(* row is read or written; consequently, in every committed state the      *)
(* owner of every profile has a users row.                                 *)

\* the handler on connection c has read or written nothing but users
OnlyUsersTouched(c) ==
    /\ pool[c].slot = 0 /\ pool[c].row = None /\ pool[c].value = None
    /\ \A t \in TableNames \ {"users"} :
            pool[c].w.ins[t] = {} /\ pool[c].w.del[t] = {}

\* C31: a List, Create or Update in progress has the user sync as its first
\* statement; until it has executed it the transaction has chosen no slot
\* and read or written no row, and once it has, the transaction sees a
\* users row of its user; every committed header has a users row of its
\* owner
C31_SyncFirst ==
    /\ \A c \in InProgress :
        pool[c].op \in {"list", "create", "update"} =>
            /\ pool[c].prog[1] = "ensure_user"
            /\ pool[c].pc = 1 => OnlyUsersTouched(c) /\ pool[c].w = NoWrites
            /\ pool[c].pc = 2 => OnlyUsersTouched(c)
            /\ pool[c].pc > 1 => UserRows(View(db, pool[c].w), pool[c].user_id) # {}
    /\ \A r \in db.avatars : \E u \in db.users : u.id = r.user_id

\* a profile is committed with the users row of its owner, while a Create
\* in progress has synchronised the user and chosen its slot
C31_Witness ==
    /\ \E r \in db.avatars : \E u \in db.users : u.id = r.user_id
    /\ \E c \in InProgress :
        /\ pool[c].op = "create" /\ pool[c].pc = 3 /\ pool[c].slot = 2
        /\ pool[c].outcome = Running

----------------------------------------------------------------------------
(* Creates and updates through the routes with quickModeSettings that      *)
(* normalize to nothing, or to a body shape, and quickMode absent, false   *)
(* or true.                                                                *)

ShapeSettingsValues ==
    {Mapping(<<>>),
     Mapping(<<KeyValue(BodyShapeKey, Str(<<" ">>))>>),
     Mapping(<<KeyValue(BodyShapeKey, None), KeyValue(AthleticLevelKey, Str(<<>>)),
               KeyValue(MeasurementsKey, Mapping(<<>>))>>),
     Mapping(<<KeyValue(MeasurementsKey, None)>>),
     Mapping(<<KeyValue(BodyShapeKey, Str(<<" ", "P", "e", "a", "r", " ", "S", " ">>))>>)}

ShapePayloads ==
    {With(Field("name", Str(name)),
          With(Optional("quickMode", flag), Field("quickModeSettings", settings))) :
        name \in {NameA, NameB}, flag \in {Absent, Bool(FALSE), Bool(TRUE)},
        settings \in ShapeSettingsValues}

NextShape ==
    \/ /\ next_uuid <= MaxUuid
       /\ \E p \in ShapePayloads : route_create_avatar("u1", p, None, clock, 0)
    \/ \E a \in NameIds, p \in ShapePayloads : route_update_avatar("u1", a, p, None, clock, 0)

SpecShape == Init /\ [][NextShape]_vars

----------------------------------------------------------------------------
(* C32: a quickModeSettings payload whose bodyShape, athleticLevel and     *)
(* measurements are all absent or empty after normalization (string        *)
(* sub-fields trimmed, lower-cased, spaces replaced by underscores)        *)
(* reaches the store as null, never as an empty object; the store then     *)
(* writes no quick-mode-settings record, and quick_mode is not forced to   *)
(* true by it.                                                             *)

\* the field of the settings is absent, null, text of spaces or an object
\* with no item
EmptySubField(settings, key) ==
    \A i \in 1..Len(settings.v) :
        settings.v[i].key = key =>
            LET value == settings.v[i].value
            IN  \/ value = None
                \/ value.t = "str" /\ \A j \in 1..Len(value.v) : value.v[j] = " "
                \/ value.t = "mapping" /\ value.v = <<>>

\* the settings of the body have nothing but empty fields
EmptyQuickSettings ==
    /\ "quickModeSettings" \in DOMAIN req.payload
    /\ \A key \in {BodyShapeKey, AthleticLevelKey, MeasurementsKey} :
            EmptySubField(req.payload.quickModeSettings, key)

\* quickMode of the body is true
QuickModeAsked ==
    "quickMode" \in DOMAIN req.payload /\ req.payload.quickMode = Bool(TRUE)

\* C32: after a Create or an Update whose settings are empty the mutation
\* has null settings, the profile has no quick-mode-settings record, the
\* profile returned has null settings, and quick_mode of the mutation, of
\* the header and of the profile returned is what quickMode of the body asks
C32_EmptySettingsAreNull ==
    (req.op \in {"create", "update"} /\ resp.outcome = "ok" /\ EmptyQuickSettings) =>
        /\ resp.m.quick_mode_settings = None
        /\ \A r \in db.quick : r.avatar_id # resp.avatar_id
        /\ resp.value.quickModeSettings = None
        /\ resp.m.quick_mode <=> QuickModeAsked
        /\ resp.value.quickMode <=> QuickModeAsked
        /\ \E r \in db.avatars : r.id = resp.avatar_id /\ (r.quick_mode <=> QuickModeAsked)

\* an Update whose settings have fields, all of them empty, and whose
\* quickMode is false has succeeded and left the header with quick_mode false
C32_Witness ==
    /\ req.op = "update" /\ resp.outcome = "ok" /\ EmptyQuickSettings
    /\ Get(req.payload, "quickMode") = Bool(FALSE)
    /\ req.payload.quickModeSettings.v # <<>>
    /\ fresh = None
    /\ \E r \in db.avatars : r.id = resp.avatar_id /\ ~r.quick_mode

----------------------------------------------------------------------------
(* Overlapping creates, updates and reads of one user's profiles whose     *)
(* morph targets repeat an id, have blank and missing ids, and are not in  *)
(* the order of their ids.                                                 *)

SatellitesRepeated ==
    [NoSatellites EXCEPT !.morph_targets =
        <<[id |-> Str(<<"b">>), sliderValue |-> Float(1)],
          [id |-> Str(<<" ", "a">>), sliderValue |-> Float(1)],
          [id |-> Str(<<"B">>), unrealValue |-> Float(1)],
          [id |-> Str(<<"a", " ">>), sliderValue |-> Float(2)],
          [id |-> Str(<<" ">>), sliderValue |-> Float(3)],
          [sliderValue |-> Float(3)]>>]

SatellitesSingle ==
    [NoSatellites EXCEPT !.morph_targets =
        <<[id |-> Str(<<"a">>), sliderValue |-> Float(3)],
          [id |-> None, sliderValue |-> Float(3)]>>]

MorphMutations ==
    {Mutation(NameA, FALSE, FALSE, SatellitesRepeated),
     Mutation(NameB, FALSE, FALSE, SatellitesSingle)}

NextMorph ==
    \/ \E c \in RaceConns, u \in QuotaUsers, l \in Limits, x \in Contexts :
            Call(c, "list", u, 0, None, x, l)
    \/ \E c \in RaceConns, u \in QuotaUsers, a \in Uuids : Call(c, "get", u, a, None, None, 0)
    \/ /\ next_uuid <= MaxUuid
       /\ \E c \in RaceConns, u \in QuotaUsers, m \in MorphMutations, x \in Contexts :
                Call(c, "create", u, next_uuid, m, x, 0)
    \/ \E c \in RaceConns, u \in QuotaUsers, a \in Uuids, m \in MorphMutations, x \in Contexts :
            Call(c, "update", u, a, m, x, 0)
    \/ \E c \in RaceConns : Statement(c)
    \/ \E c \in RaceConns : Return(c)

SpecMorph == Init /\ [][NextMorph]_vars

----------------------------------------------------------------------------
(* C33: in every reachable state a profile has at most one morph-target    *)
(* record per morph id (entries with the same id in one write collapse to  *)
(* the last, entries with a missing or blank id are dropped), and every    *)
(* read returns the profile's morph targets sorted ascending by id.        *)

\* the id of an entry of a write, trimmed, empty when it has none
EntryId(item) ==
    IF "id" \in DOMAIN item /\ item.id # None THEN Strip(item.id.v) ELSE <<>>

\* the last entry of a write with the id
LastEntry(morph_targets, id) ==
    morph_targets[CHOOSE i \in 1..Len(morph_targets) :
                    /\ EntryId(morph_targets[i]) = id
                    /\ \A j \in (i + 1)..Len(morph_targets) :
                            EntryId(morph_targets[j]) # id]

\* the ids of the entries of a write that have one
EntryIds(morph_targets) ==
    {EntryId(morph_targets[i]) : i \in 1..Len(morph_targets)} \ {<<>>}

\* items of a profile returned, in ascending order of their ids
AscendingById(items) ==
    \A i \in 1..Len(items) : \A j \in (i + 1)..Len(items) :
        StrLess(items[i].id.v, items[j].id.v)

\* the profile a Create or an Update returns has one item for each id of
\* the write, with the slider value of the last entry of that id
ItemsOfWrite(items, morph_targets) ==
    /\ {items[i].id.v : i \in 1..Len(items)} = EntryIds(morph_targets)
    /\ Len(items) = Cardinality(EntryIds(morph_targets))
    /\ \A i \in 1..Len(items) :
        Get(items[i], "sliderValue")
            = Get(LastEntry(morph_targets, items[i].id.v), "sliderValue")

\* C33: no two morph-target records, committed or written by a transaction
\* in progress, have the same profile and morph id, and none has a blank
\* id; the morph targets of a profile returned are in ascending order of
\* their ids, those of every item of a List too, and those a Create or an
\* Update returns are the entries of the write, the last of each id
C33_OneRecordPerMorph ==
    /\ \A r \in db.morphs, o \in db.morphs :
            (r.avatar_id = o.avatar_id /\ r.morph_id = o.morph_id) => r = o
    /\ \A r \in db.morphs : r.morph_id # <<>> /\ Strip(r.morph_id) = r.morph_id
    /\ \A c \in InProgress :
        \A r \in View(db, pool[c].w).morphs, o \in View(db, pool[c].w).morphs :
            (r.avatar_id = o.avatar_id /\ r.morph_id = o.morph_id) => r = o
    /\ (resp.outcome = "ok" /\ resp.op \in {"get", "create", "update"}) =>
            AscendingById(resp.value.morphTargets)
    /\ (resp.outcome = "ok" /\ resp.op = "list") =>
            \A i \in 1..Len(resp.value.items) :
                AscendingById(resp.value.items[i].morphTargets)
    /\ (resp.outcome = "ok" /\ resp.op \in {"create", "update"}) =>
            ItemsOfWrite(resp.value.morphTargets, resp.m.morph_targets)

\* an Update has replaced the one morph target of a profile by the three of
\* a write with six entries, and returned them in the order B, a, b
C33_Witness ==
    /\ resp.outcome = "ok" /\ resp.op = "update"
    /\ Len(resp.m.morph_targets) = 6
    /\ Len(resp.value.morphTargets) = 3
    /\ resp.value.morphTargets[1].id = Str(<<"B">>)
    /\ resp.value.morphTargets[2].sliderValue = Float(2)
    /\ Cardinality({r \in db.morphs : r.avatar_id = resp.avatar_id}) = 3
    /\ \E c \in InProgress : pool[c].op = "update"

----------------------------------------------------------------------------
(* C34: on read, a morph target whose own row stores a backend key is      *)
(* returned with that key; a morph target whose own row stores none is     *)
(* returned with the shared definition's backend key for its id when one   *)
(* exists, and without a backendKey only when neither exists.              *)

\* the morph-target rows of the profile the last operation returned
ReturnedRows == {r \in db.morphs : r.avatar_id = resp.avatar_id}

\* the item is the row with the key the claim gives it
KeyOfItem(item, row) ==
    IF row.backend_key # None
    THEN "backendKey" \in DOMAIN item /\ item.backendKey = row.backend_key
    ELSE IF DefinedKey(db, row.morph_id) \notin {Absent, None}
    THEN "backendKey" \in DOMAIN item /\ item.backendKey = DefinedKey(db, row.morph_id)
    ELSE "backendKey" \notin DOMAIN item

\* C34: the profile a Get, a Create or an Update returns has one morph
\* target for each of its rows, with the key of the row when the row has
\* one, else with the key of the definition of its id when that has one,
\* else with none
C34_BackendKeyOnRead ==
    (resp.outcome = "ok" /\ resp.op \in {"get", "create", "update"}) =>
        /\ Len(resp.value.morphTargets) = Cardinality(ReturnedRows)
        /\ \A i \in 1..Len(resp.value.morphTargets) :
            \E row \in ReturnedRows :
                /\ row.morph_id = resp.value.morphTargets[i].id.v
                /\ KeyOfItem(resp.value.morphTargets[i], row)

\* a Get has returned the morph a with the key k of its own row while the
\* definition of a has the key j, and another profile, whose row of a has
\* no key, is read with j
C34_Witness ==
    /\ resp.outcome = "ok" /\ resp.op = "get"
    /\ DefinedKey(db, <<"a">>) = Str(<<"j">>)
    /\ \E i \in 1..Len(resp.value.morphTargets) :
        /\ resp.value.morphTargets[i].id = Str(<<"a">>)
        /\ Get(resp.value.morphTargets[i], "backendKey") = Str(<<"k">>)
    /\ \E r \in db.morphs :
        /\ r.avatar_id # resp.avatar_id /\ r.morph_id = <<"a">> /\ r.backend_key = None
        /\ \E h \in db.avatars :
            /\ h.id = r.avatar_id
            /\ \E t \in {Hydrate(db, h).morphTargets} : Get(t[1], "backendKey") = Str(<<"j">>)

----------------------------------------------------------------------------
(* The routes with their check of the authenticated user, for requests of  *)
(* each user on the paths of each user.                                    *)

Forbidden ==
    [t |-> "abort", status |-> 403, field |-> "user_id", says |-> "is not allowed",
     names |-> <<>>]

\* a check that lets every authenticated user through
AnyUserAccess(authenticated_user, user_id) == authenticated_user \in Users

\* require_user_access: whether the authenticated user is the user of the
\* path (abort(403) otherwise)
require_user_access(authenticated_user, user_id) == authenticated_user = user_id

\* abort(403), with the tables as they were: no repository function called
Denied(op, user_id, avatar_id, payload, now) ==
    /\ resp' = [op |-> op, user_id |-> user_id, avatar_id |-> 0, m |-> None,
                outcome |-> "Forbidden", value |-> Forbidden, rolled_back |-> {}]
    /\ req' = Request(op, user_id, avatar_id, payload, FALSE)
    /\ clock' = now
    /\ UNCHANGED <<db, next_uuid, fresh, pool>>

scoped_list_avatars(authenticated_user, user_id, now) ==
    IF require_user_access(authenticated_user, user_id)
    THEN route_list_avatars(user_id, None, now, 0)
    ELSE Denied("list", user_id, <<>>, None, now)

scoped_create_avatar(authenticated_user, user_id, payload, now) ==
    IF require_user_access(authenticated_user, user_id)
    THEN route_create_avatar(user_id, payload, None, now, 0)
    ELSE Denied("create", user_id, <<>>, payload, now)

scoped_get_avatar(authenticated_user, user_id, avatar_id, now) ==
    IF require_user_access(authenticated_user, user_id)
    THEN route_get_avatar(user_id, avatar_id, now, 0)
    ELSE Denied("get", user_id, avatar_id, None, now)

scoped_update_avatar(authenticated_user, user_id, avatar_id, payload, now) ==
    IF require_user_access(authenticated_user, user_id)
    THEN route_update_avatar(user_id, avatar_id, payload, None, now, 0)
    ELSE Denied("update", user_id, avatar_id, payload, now)

scoped_delete_avatar(authenticated_user, user_id, avatar_id, now) ==
    IF require_user_access(authenticated_user, user_id)
    THEN route_delete_avatar(user_id, avatar_id, now, 0)
    ELSE Denied("delete", user_id, avatar_id, None, now)

ScopePayloads == {PayloadPlain}

\* the request of authenticated_user on a path of user_id
ScopedRequest(authenticated_user, user_id) ==
    \/ scoped_list_avatars(authenticated_user, user_id, clock)
    \/ /\ next_uuid <= MaxUuid
       /\ \E p \in ScopePayloads : scoped_create_avatar(authenticated_user, user_id, p, clock)
    \/ \E a \in NameIds : scoped_get_avatar(authenticated_user, user_id, a, clock)
    \/ \E a \in NameIds, p \in ScopePayloads :
            scoped_update_avatar(authenticated_user, user_id, a, p, clock)
    \/ \E a \in NameIds : scoped_delete_avatar(authenticated_user, user_id, a, clock)

NextScope == \E authenticated_user \in Users, user_id \in Users :
                ScopedRequest(authenticated_user, user_id)

SpecScope == Init /\ [][NextScope]_vars

----------------------------------------------------------------------------
(* C35: every avatar route checks that the authenticated user equals the   *)
(* user_id in the path before it invokes any repository operation: when    *)
(* they differ the request is rejected with 403 and no repository          *)
(* operation (and so no user sync or profile read/write) is performed for  *)
(* it.                                                                     *)

\* a step that is the request of a user on a path of another user
ForeignRequest ==
    \E authenticated_user \in Users, user_id \in Users :
        /\ authenticated_user # user_id
        /\ ScopedRequest(authenticated_user, user_id)

\* C35: a request of a user on a path of another user is answered 403, the
\* repository is not entered for it, and the tables, the users among them,
\* the pool and the ids given out are as they were
C35_ForeignUserRejected ==
    [][ForeignRequest =>
            /\ resp'.outcome = "Forbidden" /\ resp'.value.status = 403
            /\ ~req'.began
            /\ UNCHANGED <<db, next_uuid, pool>>]_vars

\* the list of u2 has been refused to another user while u2 has no users
\* row, and u1 has a profile
C35_Witness ==
    /\ resp.outcome = "Forbidden" /\ resp.op = "list" /\ resp.user_id = "u2"
    /\ ~req.began
    /\ \A r \in db.users : r.id # "u2"
    /\ \E r \in db.avatars : r.user_id = "u1"

----------------------------------------------------------------------------
(* The status and the body a route answers with.                           *)

\* jsonify(...) with 200, or 201 for a Create, ("", 204) for a Delete, and
\* the abort of the except clause that catches the error; an exception no
\* clause catches is a 500
status_code(op, outcome, value) ==
    CASE outcome = "ok" ->
            (IF op = "create" THEN 201 ELSE IF op = "delete" THEN 204 ELSE 200)
      [] outcome = "NotFound" -> 404
      [] outcome \in {"DuplicateName", "QuotaExceeded"} -> 409
      [] outcome \in {"Invalid", "Forbidden"} -> value.status
      [] OTHER -> 500

\* the body of the answer: the text "" of a Delete, else the JSON value
response_body(op, outcome, value) ==
    IF op = "delete" /\ outcome = "ok" THEN Str(<<>>) ELSE value

----------------------------------------------------------------------------
(* C36: the boundary maps each store outcome to one fixed status: a        *)
(* successful Delete to 204 with an empty body, NotFound to 404,           *)
(* DuplicateName and QuotaExceeded both to 409, a malformed avatar id to   *)
(* 400, and a validation rejection to 400; no typed store error surfaces   *)
(* as a 500.                                                               *)

\* the status of the last answer
LastStatus == status_code(resp.op, resp.outcome, resp.value)

\* the statuses of C36 but that of a malformed id
OutcomeStatuses ==
    /\ (resp.op = "delete" /\ resp.outcome = "ok") =>
            /\ LastStatus = 204
            /\ response_body(resp.op, resp.outcome, resp.value) = Str(<<>>)
    /\ resp.outcome = "NotFound" => LastStatus = 404
    /\ resp.outcome \in {"DuplicateName", "QuotaExceeded"} => LastStatus = 409
    /\ resp.outcome = "Invalid" => LastStatus = 400
    /\ resp.outcome \in {"NotFound", "DuplicateName", "QuotaExceeded", "Invalid"} =>
            LastStatus # 500

\* C36, as stated: the statuses above, and 400 for every Get, Update and
\* Delete whose avatar id is not a well-formed UUID
C36_OutcomeToStatus ==
    /\ OutcomeStatuses
    /\ (req.op \in {"get", "update", "delete"} /\ ~WellFormedUuid(req.avatar_id)) =>
            LastStatus = 400

----------------------------------------------------------------------------
(* C37: the default name takes part in name uniqueness: if a user already  *)
(* has a profile stored as "Untitled Avatar", a second Create (or an       *)
(* Update of another profile) for that user with a missing or blank name   *)
(* fails with DuplicateName; likewise two names that differ only in        *)
(* surrounding whitespace collide.                                         *)

\* the request is a Create, or an Update of a profile there is, with a
\* name that is absent, null or a string
NamedWrite ==
    /\ req.op \in {"create", "update"}
    /\ IsNull(Get(req.payload, "name")) \/ IsText(Get(req.payload, "name"))

\* another profile of the user of the request has, in the tables d, the
\* name the request is to store
NameInUse(d) ==
    \E r \in d.avatars :
        /\ r.user_id = req.user_id
        /\ r.name = ExpectedName
        /\ req.op = "update" => Canonical(r.id) # req.avatar_id

\* the profile an Update names is in the tables d
TargetIn(d) ==
    req.op = "update" => \E r \in d.avatars : Canonical(r.id) = req.avatar_id

\* C37: a Create, or an Update of an existing profile, fails with
\* DuplicateName, leaving the tables as they were, exactly when another
\* profile of the user is stored under the name the request comes to:
\* its name trimmed, or Untitled Avatar when the name is missing or blank
C37_DefaultNameCollides ==
    [][\A d \in {db} :
            (NamedWrite' /\ TargetIn(d)') =>
                /\ resp'.outcome = "DuplicateName" <=> NameInUse(d)'
                /\ resp'.outcome = "DuplicateName" => db' = d]_vars

\* an Update with a blank name of one profile has failed with DuplicateName
\* because the other profile of the user is stored as Untitled Avatar
C37_Witness ==
    /\ req.op = "update" /\ resp.outcome = "DuplicateName"
    /\ Get(req.payload, "name") = Str(Blank)
    /\ \E r \in db.avatars : r.name = UntitledAvatar /\ Canonical(r.id) # req.avatar_id
    /\ \E r \in db.avatars : r.name # UntitledAvatar /\ Canonical(r.id) = req.avatar_id

----------------------------------------------------------------------------
(* Overlapping writes and deletes of the same profiles, with and without   *)
(* satellite rows.                                                         *)

\* a profile is created with no satellite rows and updated to have some
OverlapCreated == Mutation(NameA, FALSE, FALSE, NoSatellites)

OverlapUpdated == Mutation(NameB, FALSE, FALSE, SatellitesOne)

NextOverlap ==
    \/ /\ next_uuid <= MaxUuid
       /\ \E c \in RaceConns, u \in QuotaUsers :
                Call(c, "create", u, next_uuid, OverlapCreated, None, 0)
    \/ \E c \in RaceConns, u \in QuotaUsers, a \in Uuids :
            Call(c, "update", u, a, OverlapUpdated, None, 0)
    \/ \E c \in RaceConns, u \in QuotaUsers, a \in Uuids : Call(c, "delete", u, a, None, None, 0)
    \/ \E c \in RaceConns : Statement(c)
    \/ \E c \in RaceConns : Return(c)

SpecOverlap == Init /\ [][NextOverlap]_vars

----------------------------------------------------------------------------
(* C38: in every committed state every basic-measurement, body-            *)
(* measurement, morph-target and quick-mode-settings row refers to an      *)
(* existing profile header, including when an Update and a Delete of the   *)
(* same profile overlap; an Update that loses that race does not return a  *)
(* profile and does not commit satellite rows for the deleted profile.     *)

\* the satellite rows of the tables d whose profile has no header in d
Orphans(d) ==
    UNION {{r \in d[t] : \A h \in d.avatars : h.id # r.avatar_id} : t \in Satellites}

\* C38: the committed tables have no satellite row without its header
C38_NoOrphanSatellites == Orphans(db) = {}

\* an Update whose UPDATE statement found the header gone: the header was
\* there at its SELECT, and a Delete committed in between
LostRace(cx) ==
    /\ cx.op = "update"
    /\ cx.pc > 3
    /\ cx.row = None

\* the part of C38 about an Update that loses the race: it ends in an
\* exception, returns no profile and commits nothing
LosingUpdateCommitsNothing ==
    [][\A c \in RaceConns :
        (Busy(c) /\ ~Busy(c)' /\ LostRace(pool[c])) =>
            /\ resp'.outcome = "TypeError"
            /\ resp'.value = None
            /\ db' = db]_vars

\* an Update that lost the race has been rolled back with the satellite
\* rows it had written
LosingUpdateSeen ==
    /\ resp.op = "update" /\ resp.outcome = "TypeError"
    /\ Satellites \subseteq resp.rolled_back

----------------------------------------------------------------------------
(* C39: Get changes no stored state at all: it performs no user sync, so a *)
(* Get by a user that has no users row creates none, and the users,        *)
(* header, satellite and morph-definition tables are the same before and   *)
(* after it; Delete likewise never creates or modifies a users row.        *)

\* the transaction of the handler on connection c has written no users row
UsersUntouched(c) ==
    pool[c].w.ins.users = {} /\ pool[c].w.del.users = {}

\* the handler on connection c leaves _connection in this step
Leaves(c) == Busy(c) /\ ~Busy(c)'

\* C39: a Get in progress has written nothing and a Delete in progress has
\* written no users row, whatever statement they have come to; the step in
\* which a Get ends leaves every table as it was, and the step in which a
\* Delete ends leaves the users table as it was
C39_GetWritesNothing ==
    /\ [](\A c \in InProgress :
            /\ pool[c].op = "get" => pool[c].w = NoWrites
            /\ pool[c].op = "delete" => UsersUntouched(c))
    /\ [][\A c \in RaceConns :
            /\ (Leaves(c) /\ pool[c].op = "get") => db' = db
            /\ (Leaves(c) /\ pool[c].op = "delete") => db'.users = db.users]_vars

\* a Get by a user that has no users row has ended, the users table still
\* without the row, and a Delete by that user has read that there is no
\* such profile
C39_Witness ==
    /\ resp.op = "get" /\ resp.outcome = "NotFound"
    /\ UserRows(db, resp.user_id) = {}
    /\ \E c \in InProgress :
        /\ pool[c].op = "delete" /\ pool[c].outcome = "NotFound"
        /\ pool[c].user_id = resp.user_id

====
